---------------------------- MODULE Spec2Model ----------------------------
(***************************************************************************)
(* A model of the scip-sync core of uberzzr/scip-lsp (bsp_server):         *)
(*   - scip_utils.dfs / scip_sync.get_dependency_graph  (closure)          *)
(*   - scip_utils.transform_bazel_query_results         (graph transform)  *)
(*   - scip_utils.copy_index                            (artifact sync)    *)
(*   - workspace.ScipWorkspace, write_workspace         (workspace store)  *)
(*   - scip_sync.main, workspace.populate_workspace,                       *)
(*     workspace.get_manifest_for_file                  (entry point)      *)
(*   - scip_utils._get_all_outputs                      (action graph)     *)
(*   - execute_query.execute_query                      (build-tool query) *)
(*   - workspace.add_to_workspace, manifest by manifest (populate)         *)
(*   - scip_sync.main, call by call                     (stages)           *)
(*   - the fragment pool of _get_all_outputs            (fragments)        *)
(*   - _get_all_outputs.process_fragment, turn by turn  (walk)             *)
(*   - workspace.populate_workspace, target by target   (populate loop)    *)
(* Each component has its own specification over the shared variables.     *)
(***************************************************************************)
EXTENDS Integers, Sequences, FiniteSets, TLC

VARIABLES
    \* get_dependency_graph
    dep_graph,      \* the transformed graph (label -> node)
    call,           \* the arguments of the call
    result,         \* the set the call returned
    status,         \* "idle", "ok" or the exception the call raised
    \* transform_bazel_query_results
    qr,             \* the raw query records
    res,            \* the dictionary returned
    tstatus,        \* "idle", "ok" or the exception raised
    \* copy_index
    src_files,      \* generated artifacts: path -> [version, sha]
    cache,          \* the cache directory: entry name -> entry
    cpc,            \* "idle", "copying" (workers running) or "done"
    index_to_copy,  \* the artifact set of the current run
    current_status, \* cached digests read when the run started
    task,           \* per artifact: how far process_and_copy_scip_index got
    copy_log,       \* the shutil.copy calls of the current run that wrote
    delete_log,     \* the entries the current run removed
    runs_done,      \* completed runs
    prev,           \* what the previous run saw and did
    \* ScipWorkspace, write_workspace
    ws,             \* the store: files, links, _last_link_id
    returned,       \* the ids add_link returned since construction or clear()
    wpc,            \* "open", "written" or "loaded"
    ws_doc,         \* workspace.json, or Absent
    loaded,         \* the store rebuilt from workspace.json
    \* main, get_manifest_for_file
    workspace_json, \* .scip/workspace.json: NoDocument, NotJson or a JSON value
    json_before,    \* workspace.json as the last run of main found it
    main_args,      \* the arguments and inputs of the last run of main
    effects,        \* the external steps that run made, in order
    lookup,         \* the last get_manifest_for_file call and its outcome
    main_status,    \* "idle", "returned" or the exception that ended main
    \* _get_all_outputs
    action_graph,   \* the action graph the query printed, parsed
    final_results,  \* the mapping returned
    join_status,    \* "idle", "ok" or the exception raised
    max_workers,    \* the size of the thread pool of the call
    \* execute_query
    query_args,     \* the arguments of the call
    query_file,     \* the temporary query file: "none", "exists" or "deleted"
    process,        \* the query command: what it has yet to print, its exit status
    outputs,        \* the records appended so far
    query_return_code, \* the return code of the last tuple streamed
    qpc,            \* where the call is: "idle" ... "returned" or "raised"
    \* add_to_workspace, one manifest of its loop at a time
    pop_store,      \* the ScipWorkspace being populated
    pop_call,       \* the add_to_workspace call in progress and its loop index
    pop_before,     \* the store when that call began
    pop_prev,       \* the store before the last iteration of the loop
    pop_calls,      \* add_to_workspace calls begun
    \* main, stage by stage, with the processes and threads it starts
    stage_pc,       \* the statement of main that runs next
    stage_log,      \* the calls of main begun and returned, in order
    running,        \* the child processes and pool threads alive
    stage_in,       \* the outcomes of the external commands of the run
    sync_stats,     \* SyncStats.index_sync_time_sec, and the builds started
    \* the fragment resolution of _get_all_outputs, thread by thread
    frag_call,      \* data["pathFragments"] and the size of the pool
    path_table,     \* path_dict, the shared fragment-path table
    futures,        \* one future per fragment: pending, or its outcome
    frag_status,    \* "idle", "collecting", "ok" or the exception raised
    \* process_fragment, one turn of its while loop at a time
    walk_call,      \* data["pathFragments"] and the size of the pool
    walks,          \* one task per fragment: its state, current_id, path_parts
    walk_paths,     \* path_dict as the collecting thread has filled it
    walk_status,    \* "idle", "collecting", "merging" or how the stage ended
    \* populate_workspace, one target of its loop at a time
    pw_store,       \* the ScipWorkspace create_workspace returned, as filled
    pw_call,        \* target_to_output, the position of the loop, where it is
    pw_handed,      \* the targets add_to_workspace was called with, in order
    pw_before,      \* the store before the last iteration of the loop
    pw_runs         \* populate_workspace calls begun

closureVars == <<dep_graph, call, result, status>>
transformVars == <<qr, res, tstatus>>
copyVars ==
    <<src_files, cache, cpc, index_to_copy, current_status, task, copy_log,
      delete_log, runs_done, prev>>
workspaceVars == <<ws, returned, wpc, ws_doc, loaded>>
mainVars == <<workspace_json, json_before, main_args, effects, lookup, main_status>>
joinVars == <<action_graph, final_results, join_status, max_workers>>
queryVars == <<query_args, query_file, process, outputs, query_return_code, qpc>>
populateVars == <<pop_store, pop_call, pop_before, pop_prev, pop_calls>>
stageVars == <<stage_pc, stage_log, running, stage_in, sync_stats>>
fragmentVars == <<frag_call, path_table, futures, frag_status>>
walkVars == <<walk_call, walks, walk_paths, walk_status>>
pwVars == <<pw_store, pw_call, pw_handed, pw_before, pw_runs>>
vars ==
    <<closureVars, transformVars, copyVars, workspaceVars, mainVars, joinVars,
      queryVars, populateVars, stageVars, fragmentVars, walkVars, pwVars>>

Absent == "<absent>"

MaxWorkers == 2   \* get_thread_pool_size(): threads of a pool

NoCall ==
    [targets |-> {}, depth |-> 0, exclude_targets |-> {},
     query_rdeps |-> FALSE, query_deps |-> FALSE, queries |-> 0]

\* The components a specification does not exercise stay as constructed.
ClosureUnused ==
    /\ dep_graph = <<>>
    /\ call = NoCall
    /\ result = {}
    /\ status = "idle"

TransformUnused ==
    /\ qr = <<>>
    /\ res = <<>>
    /\ tstatus = "idle"

CopyUnused ==
    /\ src_files = <<>>
    /\ cache = <<>>
    /\ cpc = "idle"
    /\ index_to_copy = {}
    /\ current_status = <<>>
    /\ task = <<>>
    /\ copy_log = {}
    /\ delete_log = {}
    /\ runs_done = 0
    /\ prev = <<>>

WorkspaceUnused ==
    /\ ws = [files |-> <<>>, links |-> <<>>, _last_link_id |-> 0]
    /\ returned = <<>>
    /\ wpc = "open"
    /\ ws_doc = Absent
    /\ loaded = Absent

\* The file at the document's path: no file, or a text that is not JSON, or
\* a JSON value.
NoDocument == [kind |-> "absent"]
NotJson == [kind |-> "invalid"]

NoLookup == [file |-> Absent, status |-> "idle", manifest |-> Absent]

MainUnused ==
    /\ workspace_json = NoDocument
    /\ json_before = NoDocument
    /\ main_args = <<>>
    /\ effects = <<>>
    /\ lookup = NoLookup
    /\ main_status = "idle"

JoinUnused ==
    /\ action_graph = <<>>
    /\ final_results = <<>>
    /\ join_status = "idle"
    /\ max_workers = 0

QueryUnused ==
    /\ query_args = <<>>
    /\ query_file = "none"
    /\ process = <<>>
    /\ outputs = <<>>
    /\ query_return_code = 0
    /\ qpc = "idle"

\* No add_to_workspace call has been made.
NoPopCall ==
    [target |-> Absent, target_mnemonics |-> <<>>, manifests |-> <<>>,
     sources_lists |-> <<>>, index |-> 1, pc |-> "none"]

PopulateUnused ==
    /\ pop_store = [files |-> <<>>, links |-> <<>>, _last_link_id |-> 0]
    /\ pop_call = NoPopCall
    /\ pop_before = [files |-> <<>>, links |-> <<>>, _last_link_id |-> 0]
    /\ pop_prev = [files |-> <<>>, links |-> <<>>, _last_link_id |-> 0]
    /\ pop_calls = 0

NoStats == [index_sync_time_sec |-> "<unset>", commands |-> <<>>]

StageUnused ==
    /\ stage_pc = "idle"
    /\ stage_log = <<>>
    /\ running = {}
    /\ stage_in = <<>>
    /\ sync_stats = NoStats

FragmentUnused ==
    /\ frag_call = <<>>
    /\ path_table = <<>>
    /\ futures = <<>>
    /\ frag_status = "idle"

WalkUnused ==
    /\ walk_call = <<>>
    /\ walks = <<>>
    /\ walk_paths = <<>>
    /\ walk_status = "idle"

NoPwCall == [target_to_output |-> <<>>, index |-> 1, pc |-> "none"]

PwUnused ==
    /\ pw_store = [files |-> <<>>, links |-> <<>>, _last_link_id |-> 0]
    /\ pw_call = NoPwCall
    /\ pw_handed = <<>>
    /\ pw_before = [files |-> <<>>, links |-> <<>>, _last_link_id |-> 0]
    /\ pw_runs = 0

(***************************************************************************)
(* Strings.  A label is a string; TLC gives Len, \o and SubSeq on strings. *)
(***************************************************************************)
StartsWith(s, p) == Len(p) <= Len(s) /\ SubSeq(s, 1, Len(p)) = p

EndsWith(s, p) ==
    Len(p) <= Len(s) /\ SubSeq(s, Len(s) - Len(p) + 1, Len(s)) = p

\* str.replace(old, ""): every non-overlapping occurrence, left to right.
RECURSIVE Remove(_, _)
Remove(s, old) ==
    IF Len(s) = 0 THEN s
    ELSE IF StartsWith(s, old)
         THEN Remove(SubSeq(s, Len(old) + 1, Len(s)), old)
         ELSE SubSeq(s, 1, 1) \o Remove(SubSeq(s, 2, Len(s)), old)

\* One pattern character against one subject character: "." matches any
\* character (labels hold no newline); the other characters of a label
\* (letters, digits, "/", ":", "_", "-", "@") match themselves.
ReCharMatches(pc, c) == pc = "." \/ pc = c

\* Whether pattern p (no "^", possibly a trailing "$") matches s at position 1.
RECURSIVE ReMatchHere(_, _)
ReMatchHere(p, s) ==
    IF Len(p) = 0 THEN TRUE
    ELSE IF p = "$" THEN Len(s) = 0
    ELSE IF Len(s) = 0 THEN FALSE
    ELSE /\ ReCharMatches(SubSeq(p, 1, 1), SubSeq(s, 1, 1))
         /\ ReMatchHere(SubSeq(p, 2, Len(p)), SubSeq(s, 2, Len(s)))

\* re.search(pattern, item) for the masks get_dependency_graph builds, which
\* all start with "^": the match is anchored at the start of item.
ReSearch(pattern, item) ==
    /\ StartsWith(pattern, "^")
    /\ ReMatchHere(SubSeq(pattern, 2, Len(pattern)), item)

filter_list_by_regex(list_to_filter, regex_set) ==
    {item \in list_to_filter : \E re \in regex_set : ReSearch(re, item)}


(***************************************************************************)
(* Closure: scip_utils.dfs and scip_sync.get_dependency_graph.             *)
(***************************************************************************)
MaxDepth == 3   \* depths 0..MaxDepth are requested
MaxEdges == 3   \* a drawn graph has at most this many edges

T1 == "//path/to:target1"
T2 == "//path/to:target2"
D1 == "//path/to:dep1"
D2 == "//path/other:dep2"
D3 == "//path/new:dep3"
E1 == "//path/to:export1"
E2 == "//path/to:export2"
E3 == "//path/to:export3"

\* The graph of test_get_dependency_graph_with_multiple_targets.
ScenarioGraph ==
    (T1 :> [direct_deps |-> <<D1>>, exports |-> <<E1>>]) @@
    (T2 :> [direct_deps |-> <<D2>>, exports |-> <<>>]) @@
    (D1 :> [direct_deps |-> <<D2>>, exports |-> <<>>]) @@
    (D2 :> [direct_deps |-> <<D3>>, exports |-> <<>>]) @@
    (D3 :> [direct_deps |-> <<>>, exports |-> <<>>]) @@
    (E1 :> [direct_deps |-> <<>>, exports |-> <<E2>>]) @@
    (E2 :> [direct_deps |-> <<>>, exports |-> <<E3>>]) @@
    (E3 :> [direct_deps |-> <<>>, exports |-> <<>>])

\* The drawn graphs: three nodes; direct_deps stay inside the graph and hold
\* no "@" label (what transform_bazel_query_results produces); exports are
\* unfiltered and may name a label that is no node of the graph.
Nodes == {T1, D1, D2}
ExportTargets == Nodes \cup {E1}
LabelOrder == <<T1, T2, D1, D2, D3, E1, E2, E3>>

\* A rule is never its own input; it may export any label, itself included.
PossibleEdges ==
    {e \in {<<n, "direct_deps", d>> : n \in Nodes, d \in Nodes} : e[1] # e[3]} \cup
    {<<n, "exports", e>> : n \in Nodes, e \in ExportTargets}

\* The labels of S as a list, in LabelOrder.
AsList(S) == SelectSeq(LabelOrder, LAMBDA l : l \in S)

GraphOf(edges) ==
    [n \in Nodes |->
        [direct_deps |-> AsList({d \in Nodes : <<n, "direct_deps", d>> \in edges}),
         exports |-> AsList({e \in ExportTargets : <<n, "exports", e>> \in edges})]]

SmallGraphs ==
    {GraphOf(edges) : edges \in {E \in SUBSET PossibleEdges : Cardinality(E) <= MaxEdges}}

\* A graph whose exports name a third-party label and a label that is no
\* node: transform_bazel_query_results copies the exports attribute as it is.
External == "@maven//:guava"
ExternalExportGraph ==
    (T1 :> [direct_deps |-> <<D1>>, exports |-> <<External>>]) @@
    (D1 :> [direct_deps |-> <<>>, exports |-> <<E1>>]) @@
    (D2 :> [direct_deps |-> <<>>, exports |-> <<>>])

Graphs == SmallGraphs \cup {ScenarioGraph, ExternalExportGraph}

\* Python's recursion limit, scaled to the model: a chain of dfs frames
\* longer than this has left its depth budget and revisits a node through
\* exports only, so in the code it never ends by itself.
RecursionLimit == Cardinality(DOMAIN ScenarioGraph) + MaxDepth + 3

DfsOk(out) == [ok |-> TRUE, out |-> out]
RecursionError == [ok |-> FALSE, out |-> <<>>]

RECURSIVE dfsFrame(_, _, _, _)
RECURSIVE dfsEach(_, _, _, _)

\* Mutant: "if depth < 0: return result" moved above the export loop.
dfsFrameStopsExports(g, target, depth, frames) ==
    IF frames > RecursionLimit THEN RecursionError
    ELSE IF target \notin DOMAIN g \/ depth < 0 THEN DfsOk(<<>>)
    ELSE LET ex == dfsEach(g, g[target].exports, depth, frames)
         IN  IF ~ex.ok THEN RecursionError
             ELSE IF depth = 0 THEN DfsOk(ex.out \o <<target>>)
             ELSE LET dd == dfsEach(g, g[target].direct_deps, depth, frames)
                  IN  IF ~dd.ok THEN RecursionError
                      ELSE DfsOk(ex.out \o <<target>> \o dd.out)

\* Mutant: "result.extend([target])" indented into the "if depth == 0" block.
dfsFrameTargetOnlyAtZero(g, target, depth, frames) ==
    IF frames > RecursionLimit THEN RecursionError
    ELSE IF target \notin DOMAIN g THEN DfsOk(<<>>)
    ELSE LET ex == dfsEach(g, g[target].exports, depth, frames)
         IN  IF ~ex.ok THEN RecursionError
             ELSE IF depth < 0 THEN ex
             ELSE IF depth = 0 THEN DfsOk(ex.out \o <<target>>)
             ELSE LET dd == dfsEach(g, g[target].direct_deps, depth, frames)
                  IN  IF ~dd.ok THEN RecursionError
                      ELSE DfsOk(ex.out \o dd.out)

\* Mutant: a label is appended only when it is a node of the graph.
dfsEachInGraphOnly(g, xs, depth, frames) ==
    IF xs = <<>> THEN DfsOk(<<>>)
    ELSE LET h == dfsFrame(g, Head(xs), depth - 1, frames + 1)
         IN  IF ~h.ok THEN RecursionError
             ELSE LET t == dfsEach(g, Tail(xs), depth, frames)
                  IN  IF ~t.ok THEN RecursionError
                      ELSE IF Head(xs) \in DOMAIN g
                           THEN DfsOk(<<Head(xs)>> \o h.out \o t.out)
                           ELSE DfsOk(h.out \o t.out)

\* The loop "for x in xs: result.append(x); result.extend(dfs(g, x, depth - 1))".
dfsEach(g, xs, depth, frames) ==
    IF xs = <<>> THEN DfsOk(<<>>)
    ELSE LET h == dfsFrame(g, Head(xs), depth - 1, frames + 1)
         IN  IF ~h.ok THEN RecursionError
             ELSE LET t == dfsEach(g, Tail(xs), depth, frames)
                  IN  IF ~t.ok THEN RecursionError
                      ELSE DfsOk(<<Head(xs)>> \o h.out \o t.out)

\* dfs(dep_graph, target, depth) running in its frames-th nested frame.
dfsFrame(g, target, depth, frames) ==
    IF frames > RecursionLimit THEN RecursionError
    ELSE IF target \notin DOMAIN g THEN DfsOk(<<>>)
    ELSE LET ex == dfsEach(g, g[target].exports, depth, frames)
         IN  IF ~ex.ok THEN RecursionError
             ELSE IF depth < 0 THEN ex
             ELSE IF depth = 0 THEN DfsOk(ex.out \o <<target>>)
             ELSE LET dd == dfsEach(g, g[target].direct_deps, depth, frames)
                  IN  IF ~dd.ok THEN RecursionError
                      ELSE DfsOk(ex.out \o <<target>> \o dd.out)

\* Mutant: the depth budget is one too large ("if depth < 0" for "== 0").
dfsOneDeeper(g, target, depth) == dfsFrame(g, target, depth + 1, 1)

dfs(g, target, depth) == dfsFrame(g, target, depth, 1)

Range(f) == {f[i] : i \in DOMAIN f}

\* "^" + target.replace("/...", "") for a wildcard, "^" + target + "$" otherwise.
Mask(target) ==
    IF EndsWith(target, "/...") THEN "^" \o Remove(target, "/...")
    ELSE "^" \o target \o "$"

\* Mutant: only an empty target list is refused.
QueryStringErrorEmptyOnly(targets, query_deps, query_rdeps) ==
    targets = {}

\* execute_query's _query_string refuses an empty target list and both modes.
QueryStringError(targets, query_deps, query_rdeps) ==
    targets = {} \/ (query_deps /\ query_rdeps)

\* Mutant: rdeps mode forgets the exclude masks.
get_dependency_graph_no_exclude(g, targets, depth, exclude_targets, query_rdeps, query_deps) ==
    LET masks == {Mask(t) : t \in targets}
        sanitized_targets == filter_list_by_regex(DOMAIN g, masks)
        runs == [t \in sanitized_targets |-> dfs(g, t, depth)]
        closure == UNION {Range(runs[t].out) : t \in sanitized_targets}
    IN  IF QueryStringError(targets, query_deps, query_rdeps)
        THEN [status |-> "RuntimeError", result |-> {}, queries |-> 0]
        ELSE IF query_rdeps
        THEN [status |-> "ok", queries |-> 1,
              result |-> {key \in DOMAIN g :
                  filter_list_by_regex(Range(g[key].direct_deps), masks) # {}}]
        ELSE IF \E t \in sanitized_targets : ~runs[t].ok
        THEN [status |-> "RecursionError", result |-> {}, queries |-> 1]
        ELSE [status |-> "ok", queries |-> 1, result |-> closure]

\* Mutant: deps mode removes the nodes the exclude masks select from the
\* graph before it traverses, so nothing is reached through them.
get_dependency_graph_pruning(g, targets, depth, exclude_targets, query_rdeps, query_deps) ==
    LET masks == {Mask(t) : t \in targets}
        exclude_masks == {Mask(e) : e \in exclude_targets}
        kept == DOMAIN g \ filter_list_by_regex(DOMAIN g, exclude_masks)
        pruned == [n \in kept |-> g[n]]
        sanitized_targets == filter_list_by_regex(kept, masks)
        runs == [t \in sanitized_targets |-> dfs(pruned, t, depth)]
        closure == UNION {Range(runs[t].out) : t \in sanitized_targets}
    IN  IF QueryStringError(targets, query_deps, query_rdeps)
        THEN [status |-> "RuntimeError", result |-> {}, queries |-> 0]
        ELSE IF query_rdeps
        THEN [status |-> "ok", queries |-> 1,
              result |-> {key \in DOMAIN g :
                  /\ filter_list_by_regex(Range(g[key].direct_deps), masks) # {}
                  /\ filter_list_by_regex(Range(g[key].direct_deps), exclude_masks) = {}}]
        ELSE IF \E t \in sanitized_targets : ~runs[t].ok
        THEN [status |-> "RecursionError", result |-> {}, queries |-> 1]
        ELSE [status |-> "ok", queries |-> 1,
              result |-> closure \ filter_list_by_regex(closure, exclude_masks)]

\* get_dependency_graph on the transformed graph g: [status, result], and
\* the number of build-tool queries run.  _query_string raises while the
\* query file is written, before the query command is started.
get_dependency_graph(g, targets, depth, exclude_targets, query_rdeps, query_deps) ==
    LET masks == {Mask(t) : t \in targets}
        exclude_masks == {Mask(e) : e \in exclude_targets}
        sanitized_targets == filter_list_by_regex(DOMAIN g, masks)
        runs == [t \in sanitized_targets |-> dfs(g, t, depth)]
        closure == UNION {Range(runs[t].out) : t \in sanitized_targets}
    IN  IF QueryStringError(targets, query_deps, query_rdeps)
        THEN [status |-> "RuntimeError", result |-> {}, queries |-> 0]
        ELSE IF query_rdeps
        THEN [status |-> "ok", queries |-> 1,
              result |-> {key \in DOMAIN g :
                  /\ filter_list_by_regex(Range(g[key].direct_deps), masks) # {}
                  /\ filter_list_by_regex(Range(g[key].direct_deps), exclude_masks) = {}}]
        ELSE IF \E t \in sanitized_targets : ~runs[t].ok
        THEN [status |-> "RecursionError", result |-> {}, queries |-> 1]
        ELSE [status |-> "ok", queries |-> 1,
              result |-> closure \ filter_list_by_regex(closure, exclude_masks)]

DefaultDepth == 1

TargetSets == {{}, {T1}, {T1, T2}, {"//path/to/..."}, {"//wololo/..."}}
ExcludeSets == {{}, {D1}, {"//path/other/..."}}

InitClosure ==
    /\ dep_graph \in Graphs
    /\ call = NoCall
    /\ result = {}
    /\ status = "idle"
    /\ TransformUnused /\ CopyUnused /\ WorkspaceUnused /\ MainUnused
    /\ JoinUnused /\ QueryUnused
    /\ PopulateUnused /\ StageUnused /\ FragmentUnused /\ WalkUnused /\ PwUnused

Invoke(targets, depth, exclude_targets, query_rdeps, query_deps) ==
    LET r == get_dependency_graph(dep_graph, targets, depth, exclude_targets,
                                  query_rdeps, query_deps)
    IN  /\ status = "idle"   \* main resolves one closure per invocation
        /\ call' = [targets |-> targets, depth |-> depth,
                    exclude_targets |-> exclude_targets,
                    query_rdeps |-> query_rdeps, query_deps |-> query_deps,
                    queries |-> r.queries]
        /\ result' = r.result
        /\ status' = r.status
        /\ UNCHANGED <<dep_graph, transformVars, copyVars, workspaceVars, mainVars,
                       joinVars, queryVars,
                       populateVars, stageVars, fragmentVars, walkVars, pwVars>>

\* get_dependency_graph(cwd, targets, depth, exclude_targets): deps mode.
ResolveDeps ==
    \E targets \in TargetSets, depth \in 0..MaxDepth, exclude_targets \in ExcludeSets :
        Invoke(targets, depth, exclude_targets, FALSE, TRUE)

\* get_dependency_graph(..., query_rdeps=True, query_deps=False): rdeps mode.
ResolveRdeps ==
    \E targets \in TargetSets, exclude_targets \in ExcludeSets :
        Invoke(targets, DefaultDepth, exclude_targets, TRUE, FALSE)

\* get_dependency_graph(..., query_rdeps=True) with the default query_deps.
ResolveBoth ==
    \E targets \in TargetSets :
        Invoke(targets, DefaultDepth, {}, TRUE, TRUE)

NextClosure == ResolveDeps \/ ResolveRdeps \/ ResolveBoth

SpecClosure == InitClosure /\ [][NextClosure]_vars


(***************************************************************************)
(* What the closure claims speak of, defined without the traversal.        *)
(***************************************************************************)
\* A seed selects a label: a wildcard "<prefix>/..." by prefix, a label by
\* equality.
Selects(seed, label) ==
    IF EndsWith(seed, "/...")
    THEN StartsWith(label, SubSeq(seed, 1, Len(seed) - 4))
    ELSE seed = label

SelectedBy(seeds, labels) == {l \in labels : \E t \in seeds : Selects(t, l)}

ExportsOf(g, n) == IF n \in DOMAIN g THEN Range(g[n].exports) ELSE {}
DirectDepsOf(g, n) == IF n \in DOMAIN g THEN Range(g[n].direct_deps) ELSE {}

\* The labels reachable from S through export edges only, S included.
RECURSIVE ExportClosure(_, _)
ExportClosure(g, S) ==
    LET N == S \cup UNION {ExportsOf(g, n) : n \in S}
    IN  IF N = S THEN S ELSE ExportClosure(g, N)

\* The labels reachable from S through export and direct_dep edges, S included.
RECURSIVE FullClosure(_, _)
FullClosure(g, S) ==
    LET N == S \cup UNION {ExportsOf(g, n) \cup DirectDepsOf(g, n) : n \in S}
    IN  IF N = S THEN S ELSE FullClosure(g, N)

\* Some node reachable from S through exports lies on a cycle of exports.
ExportCycleFrom(g, S) ==
    \E n \in ExportClosure(g, S) : n \in ExportClosure(g, ExportsOf(g, n))

DepsCall == status # "idle" /\ call.query_deps /\ ~call.query_rdeps
RdepsCall == status # "idle" /\ call.query_rdeps /\ ~call.query_deps
Seeds == SelectedBy(call.targets, DOMAIN dep_graph)

\* A depth-0 deps-mode closure of one seed node, nothing excluded.
C1Case ==
    /\ DepsCall
    /\ call.depth = 0
    /\ call.exclude_targets = {}
    /\ Cardinality(Seeds) = 1

\* C1 as stated: whenever the depth-0 closure of a seed is returned, it is
\* {seed} united with everything reachable through exports, and it holds
\* none of the seed's direct_deps.
C1_AsStated ==
    (C1Case /\ status = "ok") =>
        /\ result = ExportClosure(dep_graph, Seeds)
        /\ \A s \in Seeds : result \cap DirectDepsOf(dep_graph, s) = {}

\* C1, amended: the depth-0 closure of a seed is returned exactly when no
\* cycle of exports is reachable from the seed; it then equals {seed} united
\* with everything reachable through exports, so it holds a direct_dep of the
\* seed exactly when that label is itself reachable through exports.
C1_DepthZeroClosure ==
    C1Case =>
        /\ status = IF ExportCycleFrom(dep_graph, Seeds) THEN "RecursionError" ELSE "ok"
        /\ status = "ok" =>
            /\ result = ExportClosure(dep_graph, Seeds)
            /\ \A s \in Seeds :
                result \cap DirectDepsOf(dep_graph, s) =
                    DirectDepsOf(dep_graph, s) \cap ExportClosure(dep_graph, {s})

\* A seed with a chain of two exports and a direct_dep that is left out.
C1_Witness ==
    /\ C1Case
    /\ status = "ok"
    /\ \E s \in Seeds :
        /\ \E e \in ExportsOf(dep_graph, s) :
              \E f \in ExportsOf(dep_graph, e) : f \notin {s, e} /\ f \in result
        /\ \E d \in DirectDepsOf(dep_graph, s) : d \notin result

ScenarioCall ==
    /\ DepsCall
    /\ dep_graph = ScenarioGraph
    /\ call.targets = {T1, T2}
    /\ call.exclude_targets = {}

ScenarioExpected(depth) ==
    {T1, T2, E1, E2, E3} \cup
    (IF depth >= 1 THEN {D1, D2} ELSE {}) \cup
    (IF depth >= 2 THEN {D3} ELSE {})

\* C2: on the scenario graph, seeds {target1, target2} give the seeds and
\* export1..3 at depth 0, dep1 and dep2 in addition at depth 1, dep3 in
\* addition at depth 2, and the depth-2 set at every larger depth.
C2_Scenario ==
    ScenarioCall => status = "ok" /\ result = ScenarioExpected(call.depth)

C2_Witness ==
    ScenarioCall /\ call.depth > 2 /\ result = DOMAIN ScenarioGraph

ClosureAt(depth) ==
    get_dependency_graph(dep_graph, call.targets, depth, call.exclude_targets,
                         FALSE, TRUE)

\* C3 as stated: the closure at depth N is inside the closure at depth N+1,
\* and once two consecutive depths agree every larger depth gives that set.
C3_AsStated ==
    (DepsCall /\ status = "ok" /\ \A m \in call.depth..(MaxDepth + 2) : ClosureAt(m).status = "ok") =>
        /\ result \subseteq ClosureAt(call.depth + 1).result
        /\ result = ClosureAt(call.depth + 1).result =>
              \A m \in (call.depth + 2)..(MaxDepth + 2) : ClosureAt(m).result = result

\* C3, amended: the closure at depth N is inside the closure at depth N+1
\* (when both are returned), and from depth (number of graph nodes - 1) on
\* every depth gives the full transitive closure of the selected seeds over
\* export and direct_dep edges, less the excluded labels.  Two equal
\* consecutive closures below that depth are no fixpoint.
C3_Monotone ==
    (DepsCall /\ status = "ok") =>
        LET next == ClosureAt(call.depth + 1)
            full == FullClosure(dep_graph, Seeds)
        IN  /\ next.status = "ok" => result \subseteq next.result
            /\ call.depth >= Cardinality(DOMAIN dep_graph) - 1 =>
                /\ result = full \ SelectedBy(call.exclude_targets, full)
                /\ next.status = "ok" /\ next.result = result

\* A closure that grows at the next depth, and one that has reached the
\* full closure, are both computed.
C3_Witness ==
    /\ DepsCall
    /\ status = "ok"
    /\ call.depth >= Cardinality(DOMAIN dep_graph) - 1
    /\ call.exclude_targets # {}
    /\ Cardinality(result) >= 2
    /\ SelectedBy(call.exclude_targets, FullClosure(dep_graph, Seeds)) # {}

\* C4: in rdeps mode with a non-empty seed set T and an exclude set X the
\* result is exactly the nodes with a direct_dep selected by T and no
\* direct_dep selected by X; seeds get no other treatment.
C4_Rdeps ==
    (RdepsCall /\ call.targets # {}) =>
        /\ status = "ok"
        /\ result = {n \in DOMAIN dep_graph :
              /\ SelectedBy(call.targets, DirectDepsOf(dep_graph, n)) # {}
              /\ SelectedBy(call.exclude_targets, DirectDepsOf(dep_graph, n)) = {}}

\* A node with one direct_dep selected by T and another selected by X is
\* left out while another node is returned, and a seed is not returned.
C4_Witness ==
    /\ RdepsCall
    /\ result # {}
    /\ Seeds # {}
    /\ Seeds \cap result = {}
    /\ \E n \in DOMAIN dep_graph \ result :
        /\ SelectedBy(call.targets, DirectDepsOf(dep_graph, n)) # {}
        /\ SelectedBy(call.exclude_targets, DirectDepsOf(dep_graph, n)) # {}


\* C25: a deps-mode closure request on a finite graph ends by itself, at
\* every depth, cycles of export or direct_dep edges included.
C25_AsStated ==
    (DepsCall /\ call.targets # {}) => status = "ok"

\* The same for the graphs in which no cycle of export edges can be reached
\* from a seed through export and direct_dep edges.
C25_NoExportCycle ==
    (DepsCall /\ call.targets # {}
        /\ ~ExportCycleFrom(dep_graph, FullClosure(dep_graph, Seeds)))
        => status = "ok"

\* A traversal through a cycle of direct_dep edges that ended.
C25_NoExportCycleWitness ==
    /\ DepsCall
    /\ status = "ok"
    /\ call.depth = MaxDepth
    /\ \E s \in Seeds : \E d \in DirectDepsOf(dep_graph, s) :
          s # d /\ s \in DirectDepsOf(dep_graph, d)

\* The labels at most k edges (exports or direct_deps) away from S.
RECURSIVE Within(_, _, _)
Within(g, S, k) ==
    IF k = 0 THEN S
    ELSE Within(g, S \cup UNION {ExportsOf(g, n) \cup DirectDepsOf(g, n) : n \in S}, k - 1)

\* The labels the exclude masks of the call select.
Excluded(labels) == SelectedBy(call.exclude_targets, labels)

\* C26: the depth bounds the reach of an export chain: a closure at depth d
\* holds no label further from the seeds than the d hops of the budget, the
\* hop that exhausts it and the exports delivered by the call that stops.
C26_AsStated ==
    (DepsCall /\ status = "ok") =>
        result \subseteq Within(dep_graph, Seeds, call.depth + 2)

\* C26 amended: export chains are followed to their end at every depth: each
\* label reachable from a seed through export edges is returned unless an
\* exclude mask selects it.
C26_ExportsReachUnbounded ==
    (DepsCall /\ status = "ok") =>
        LET reach == ExportClosure(dep_graph, Seeds)
        IN  reach \ Excluded(reach) \subseteq result

\* The depth-0 closure of target1 holds export3, three export hops away.
C26_Witness ==
    /\ DepsCall
    /\ status = "ok"
    /\ dep_graph = ScenarioGraph
    /\ call.depth = 0
    /\ Seeds = {T1}
    /\ E3 \in result
    /\ E3 \notin Within(dep_graph, Seeds, 2)

TraversalOf(s) == Range(dfs(dep_graph, s, call.depth).out)

\* C28: a deps-mode closure is the union of the traversals of the nodes the
\* seed masks select, less the labels the exclude masks select: no returned
\* label matches an exclude mask, and the exclusion is applied to the final
\* set only, so what is reached through an excluded node stays.
C28_UnionLessExcluded ==
    (DepsCall /\ status = "ok") =>
        LET union == UNION {TraversalOf(s) : s \in Seeds}
        IN  /\ result = union \ Excluded(union)
            /\ \A l \in result : \A e \in call.exclude_targets :
                  ~ReSearch(Mask(e), l)

\* dep1 is excluded and left out; dep2, which target1 reaches through dep1
\* only, is returned.
C28_Witness ==
    /\ DepsCall
    /\ status = "ok"
    /\ dep_graph = ScenarioGraph
    /\ Seeds = {T1}
    /\ call.exclude_targets = {D1}
    /\ D1 \notin result
    /\ D1 \in TraversalOf(T1)
    /\ D2 \in result

\* The pairs <<label, edges used>> that end a path from the pairs of S over
\* export and direct_dep edges of graph nodes, a direct_dep edge being taken
\* only as one of the first d edges; edges used are counted up to d.
RECURSIVE PathStates(_, _, _)
PathStates(g, S, d) ==
    LET next(s) ==
            {<<e, IF s[2] < d THEN s[2] + 1 ELSE d>> : e \in ExportsOf(g, s[1])}
            \cup (IF s[2] < d
                  THEN {<<x, s[2] + 1>> : x \in DirectDepsOf(g, s[1])}
                  ELSE {})
        N == S \cup UNION {next(s) : s \in S}
    IN  IF N = S THEN S ELSE PathStates(g, N, d)

PathLabels(g, seed, d) == {s[1] : s \in PathStates(g, {<<seed, 0>>}, d)}

\* C37: for a seed of the graph and a depth d >= 0, dfs returns exactly the
\* labels that end a path from the seed over export and direct_dep edges of
\* graph nodes in which every direct_dep edge is among the first d edges;
\* for a seed that is no node of the graph it returns nothing.
C37_AsStated ==
    (DepsCall /\ call.targets # {}) =>
        /\ status = "ok"
        /\ \A seed \in Seeds :
              TraversalOf(seed) = PathLabels(dep_graph, seed, call.depth)
        /\ \A seed \in {T2, E1, E3} \ DOMAIN dep_graph :
              dfs(dep_graph, seed, call.depth) = DfsOk(<<>>)

\* The same for the traversals that return.
C37_WhenReturned ==
    (DepsCall /\ status = "ok") =>
        /\ \A seed \in Seeds :
              TraversalOf(seed) = PathLabels(dep_graph, seed, call.depth)
        /\ \A seed \in {T2, E1, E3} \ DOMAIN dep_graph :
              dfs(dep_graph, seed, call.depth) = DfsOk(<<>>)

\* At depth 1 the traversal of target1 holds dep1 and the end of the export
\* chain, and not dep2, whose edge from dep1 would be the second edge.
C37_WhenReturnedWitness ==
    /\ DepsCall
    /\ dep_graph = ScenarioGraph
    /\ call.depth = 1
    /\ status = "ok"
    /\ Seeds = {T1}
    /\ {D1, E3} \subseteq TraversalOf(T1)
    /\ D2 \notin TraversalOf(T1)

(***************************************************************************)
(* Seed selection: the masks get_dependency_graph builds are handed to     *)
(* re.search as they are, so the characters of a label are read as regex   *)
(* syntax.  The same call on graphs and seeds with a "." in a label.       *)
(***************************************************************************)
ApiV1 == "//proto:api.v1"
ApiV1Twin == "//proto:api_v1"
Together == "//path/together:lib"

\* Two rules whose labels differ in one character, each with its own input.
DottedGraph ==
    (ApiV1 :> [direct_deps |-> <<D1>>, exports |-> <<>>]) @@
    (ApiV1Twin :> [direct_deps |-> <<D2>>, exports |-> <<>>]) @@
    (D1 :> [direct_deps |-> <<>>, exports |-> <<>>]) @@
    (D2 :> [direct_deps |-> <<>>, exports |-> <<>>])

\* The scenario of the test with one more package whose name starts with the
\* name of another.
TogetherGraph ==
    ScenarioGraph @@ (Together :> [direct_deps |-> <<>>, exports |-> <<>>])

SelectGraphs == {ScenarioGraph, TogetherGraph, DottedGraph}

SelectTargetSets ==
    {{}, {T1}, {T1, T2}, {"//path/to:absent"}, {"//path/to/..."}, {"//path/..."},
     {"//wololo/..."}, {T1, "//wololo/..."}, {ApiV1}, {ApiV1Twin}, {"//proto/..."}}

InitSelect ==
    /\ dep_graph \in SelectGraphs
    /\ call = NoCall
    /\ result = {}
    /\ status = "idle"
    /\ TransformUnused /\ CopyUnused /\ WorkspaceUnused /\ MainUnused
    /\ JoinUnused /\ QueryUnused
    /\ PopulateUnused /\ StageUnused /\ FragmentUnused /\ WalkUnused /\ PwUnused

\* get_dependency_graph(cwd, targets, depth, exclude_targets): deps mode.
SelectDeps ==
    \E targets \in SelectTargetSets, depth \in 0..MaxDepth, exclude_targets \in ExcludeSets :
        Invoke(targets, depth, exclude_targets, FALSE, TRUE)

\* get_dependency_graph(..., query_rdeps=True, query_deps=False): rdeps mode.
SelectRdeps ==
    \E targets \in SelectTargetSets, exclude_targets \in ExcludeSets :
        Invoke(targets, DefaultDepth, exclude_targets, TRUE, FALSE)

NextSelect == SelectDeps \/ SelectRdeps

SpecSelect == InitSelect /\ [][NextSelect]_vars

\* The graph nodes the mask of one seed matches.
Sanitized(seed) == filter_list_by_regex(DOMAIN dep_graph, {Mask(seed)})

\* The text of a seed that becomes regex text, and whether it holds a
\* character re.search does not read literally.
MaskBody(seed) == IF EndsWith(seed, "/...") THEN Remove(seed, "/...") ELSE seed
ReadLiterally(seed) ==
    \A i \in 1..Len(MaskBody(seed)) : SubSeq(MaskBody(seed), i, i) # "."

\* C39 as stated: in every deps-mode call on a non-empty seed set, each seed
\* selects exactly the graph nodes the claim names (an exact label the node
\* with that label only, a wildcard "<prefix>/..." the nodes whose label
\* starts with <prefix>), the returned closure with nothing excluded is the
\* union of the traversals of those nodes, and a seed set selecting no node
\* gives the empty closure.
C39_AsStated ==
    (DepsCall /\ call.targets # {} /\ status = "ok") =>
        /\ \A t \in call.targets :
              Sanitized(t) = {l \in DOMAIN dep_graph : Selects(t, l)}
        /\ call.exclude_targets = {} =>
              result = UNION {TraversalOf(s) : s \in Seeds}
        /\ Seeds = {} => result = {}

\* What holds instead: the claim's selection for every seed whose text
\* re.search reads literally.
C39_LiteralSeeds ==
    (DepsCall /\ call.targets # {} /\ status = "ok"
        /\ \A t \in call.targets : ReadLiterally(t)) =>
        /\ \A t \in call.targets :
              Sanitized(t) = {l \in DOMAIN dep_graph : Selects(t, l)}
        /\ call.exclude_targets = {} =>
              result = UNION {TraversalOf(s) : s \in Seeds}
        /\ Seeds = {} => result = {}

\* A wildcard selecting by prefix, across package names.
C39_LiteralSeedsWitness ==
    /\ DepsCall
    /\ status = "ok"
    /\ dep_graph = TogetherGraph
    /\ call.targets = {"//path/to/..."}
    /\ call.exclude_targets = {}
    /\ call.depth = 0
    /\ Sanitized("//path/to/...") = {T1, T2, D1, E1, E2, E3, Together}
    /\ Together \in result
    /\ D2 \notin result

(***************************************************************************)
(* Graph transform: scip_utils.transform_bazel_query_results.              *)
(***************************************************************************)
MaxInputs == 2   \* a drawn ruleInput list has at most this many entries
MaxAttrs == 2    \* a drawn attribute list has at most this many entries

LX == "//a:x"
LY == "//a:y"
LG == "@m//:g"
TLabels == {LX, LY, LG}

\* An optional key of a JSON object: absent, or present with a value of S.
Opt(key, S) == {<<>>} \cup {key :> v : v \in S}
ListsUpTo(S, n) == UNION {[1..k -> S] : k \in 0..n}

\* Mutant: the membership test "dep not in rules" is dropped.
KeepDepAnyLocal(dep, rules) == ~StartsWith(dep, "@")

\* "not dep.startswith('@') and dep in rules".
KeepDep(dep, rules) == ~StartsWith(dep, "@") /\ dep \in rules

\* The loop over a label list that appends the labels KeepDep lets through.
RECURSIVE FilterDeps(_, _)
FilterDeps(xs, rules) ==
    IF xs = <<>> THEN <<>>
    ELSE (IF KeepDep(Head(xs), rules) THEN <<Head(xs)>> ELSE <<>>)
         \o FilterDeps(Tail(xs), rules)

Get(obj, key, default) == IF key \in DOMAIN obj THEN obj[key] ELSE default

\* The loop over rule["attribute"], acc = [deps, e_deps].
RECURSIVE AttrLoop(_, _, _)
AttrLoop(attrs, rules, acc) ==
    IF attrs = <<>> THEN acc
    ELSE LET attr == Head(attrs)
         IN  IF "stringListValue" \notin DOMAIN attr
             THEN AttrLoop(Tail(attrs), rules, acc)
             ELSE AttrLoop(Tail(attrs), rules,
                    [deps |-> IF attr.name \in {"deps", "data"}
                              THEN acc.deps \o FilterDeps(attr.stringListValue, rules)
                              ELSE acc.deps,
                     e_deps |-> IF attr.name = "exports"
                                THEN attr.stringListValue
                                ELSE acc.e_deps])

\* s.split(":")[0]
RECURSIVE BeforeColon(_)
BeforeColon(s) ==
    IF Len(s) = 0 \/ SubSeq(s, 1, 1) = ":" THEN ""
    ELSE SubSeq(s, 1, 1) \o BeforeColon(SubSeq(s, 2, Len(s)))

\* rule["name"].split(":")[0][2:]
BasePath(name) ==
    LET head == BeforeColon(name)
    IN  IF Len(head) <= 2 THEN "" ELSE SubSeq(head, 3, Len(head))

\* The info dictionary of one rule; deps is list(set(deps)), a list in no
\* particular order, kept as the set of its entries.
Info(rule, rules) ==
    LET acc == AttrLoop(Get(rule, "attribute", <<>>), rules,
                        [deps |-> <<>>, e_deps |-> <<>>])
    IN  [base_path |-> BasePath(rule.name),
         deps |-> Range(acc.deps),
         direct_deps |-> FilterDeps(Get(rule, "ruleInput", <<>>), rules),
         exports |-> acc.e_deps,
         target_type |-> rule.ruleClass]

\* attr["name"] is read once the attribute is known to have a
\* stringListValue.
NamelessAttribute(rule) ==
    \E k \in DOMAIN Get(rule, "attribute", <<>>) :
        /\ "stringListValue" \in DOMAIN rule.attribute[k]
        /\ "name" \notin DOMAIN rule.attribute[k]

\* target["type"], target["rule"], rule["name"], rule["ruleClass"] and
\* attr["name"] are read with [], which raises KeyError on a record that
\* lacks them.
RaisesKeyError(records) ==
    \E i \in DOMAIN records :
        \/ "type" \notin DOMAIN records[i]
        \/ /\ records[i].type = "RULE"
           /\ \/ "rule" \notin DOMAIN records[i]
              \/ "name" \notin DOMAIN records[i].rule
              \/ "ruleClass" \notin DOMAIN records[i].rule
              \/ NamelessAttribute(records[i].rule)

IsRule(target) == target.type = "RULE"

\* The first loop: the names of the RULE records.
RuleNames(records) == {records[i].rule.name : i \in {j \in DOMAIN records : IsRule(records[j])}}

\* The second loop: a later record of the same name replaces the earlier one.
RECURSIVE TransformLoop(_, _, _)
TransformLoop(records, rules, acc) ==
    IF records = <<>> THEN acc
    ELSE LET target == Head(records)
         IN  IF ~IsRule(target) THEN TransformLoop(Tail(records), rules, acc)
             ELSE TransformLoop(Tail(records), rules,
                    (target.rule.name :> Info(target.rule, rules)) @@ acc)

\* transform_bazel_query_results(qr): [status, res].
transform_bazel_query_results(records) ==
    IF RaisesKeyError(records) THEN [status |-> "KeyError", res |-> <<>>]
    ELSE [status |-> "ok", res |-> TransformLoop(records, RuleNames(records), <<>>)]

\* The records drawn.  One rule is drawn in full: a ruleInput list or an
\* attribute list (the two are read by separate loops), each optional, with
\* every label local or external.  The records around it decide which labels
\* are rules of the result set.
Attributes ==
    {("name" :> n) @@ v :
        n \in {"deps", "data", "exports"},
        v \in Opt("stringListValue", {<<LY>>, <<LG, LX>>})}
    \cup Opt("stringListValue", {<<LY>>})

RuleBodies ==
    {("ruleClass" :> "java_library") @@ i : i \in Opt("ruleInput", ListsUpTo(TLabels, MaxInputs))}
    \cup
    {("ruleClass" :> "java_library") @@ a : a \in Opt("attribute", ListsUpTo(Attributes, MaxAttrs))}

FullRecords == {[type |-> "RULE", rule |-> ("name" :> LX) @@ b] : b \in RuleBodies}

MalformedRecords ==
    {[rule |-> [name |-> LX, ruleClass |-> "java_library"]],
     [type |-> "RULE"],
     [type |-> "RULE", rule |-> [ruleClass |-> "java_library"]],
     [type |-> "RULE", rule |-> [name |-> LX]]}

PlainRule(name) == [type |-> "RULE", rule |-> [name |-> name, ruleClass |-> "java_import"]]
SourceFile(name) == [type |-> "SOURCE_FILE", sourceFile |-> [name |-> name]]

\* Per label: no record, a RULE record or a record of another type.
Around ==
    {x \o y \o g :
        x \in {<<>>, <<PlainRule(LX)>>, <<SourceFile(LX)>>},
        y \in {<<>>, <<PlainRule(LY)>>, <<SourceFile(LY)>>},
        g \in {<<>>, <<PlainRule(LG)>>}}

\* The records of test_transform_bazel_query_results_with_rules.
TestRecords ==
    <<[type |-> "RULE",
       rule |-> [name |-> "//path/to:target", ruleClass |-> "java_library",
                 attribute |-> <<[name |-> "deps", stringListValue |-> <<"//path/to:dep1">>],
                                 [name |-> "exports", stringListValue |-> <<"//path/to:export">>]>>,
                 ruleInput |-> <<"//path/to:dep1", "//path/to:dep2">>]],
      [type |-> "RULE",
       rule |-> [name |-> "//path/to:dep1", ruleClass |-> "java_library",
                 attribute |-> <<[name |-> "data", stringListValue |-> <<"//path/to:data">>]>>]],
      [type |-> "RULE", rule |-> [name |-> "//path/to:export", ruleClass |-> "java_library"]],
      [type |-> "RULE", rule |-> [name |-> "//path/to:data", ruleClass |-> "java_library"]]>>

QueryResults ==
    {<<r>> \o a : r \in FullRecords \cup MalformedRecords, a \in Around} \cup
    {a \o <<r>> : r \in FullRecords \cup MalformedRecords, a \in Around} \cup
    Around \cup {TestRecords}

InitTransform ==
    /\ qr \in QueryResults
    /\ res = <<>>
    /\ tstatus = "idle"
    /\ ClosureUnused /\ CopyUnused /\ WorkspaceUnused /\ MainUnused
    /\ JoinUnused /\ QueryUnused
    /\ PopulateUnused /\ StageUnused /\ FragmentUnused /\ WalkUnused /\ PwUnused

\* dep_graph = scip_utils.transform_bazel_query_results(query_result)
Transform ==
    /\ tstatus = "idle"
    /\ LET r == transform_bazel_query_results(qr)
       IN  /\ res' = r.res
           /\ tstatus' = r.status
    /\ UNCHANGED <<qr, closureVars, copyVars, workspaceVars, mainVars,
                   joinVars, queryVars,
                   populateVars, stageVars, fragmentVars, walkVars, pwVars>>

NextTransform == Transform

SpecTransform == InitTransform /\ [][NextTransform]_vars

(***************************************************************************)
(* Properties of the graph transform.                                      *)
(***************************************************************************)
Transformed == tstatus = "ok"

RuleRecordNames == {qr[i].rule.name : i \in {j \in DOMAIN qr : qr[j].type = "RULE"}}

Admissible(label) == ~StartsWith(label, "@") /\ label \in RuleRecordNames

\* The record a node was built from: the last RULE record carrying its name.
RecordOf(name) ==
    LET at == {i \in DOMAIN qr : qr[i].type = "RULE" /\ qr[i].rule.name = name}
    IN  qr[CHOOSE i \in at : \A j \in at : j <= i].rule

SurvivingInputs(name) ==
    LET rule == RecordOf(name)
    IN  IF "ruleInput" \in DOMAIN rule THEN SelectSeq(rule.ruleInput, Admissible) ELSE <<>>

\* C5: every node of the result has deps and direct_deps free of labels that
\* start with "@" and of labels that no RULE record of the input names, and
\* its direct_deps is the ruleInput list of its record with exactly the
\* inadmissible entries removed, order kept.
C5_DepsFiltered ==
    Transformed =>
        \A name \in DOMAIN res :
            /\ \A d \in res[name].deps : Admissible(d)
            /\ \A i \in DOMAIN res[name].direct_deps : Admissible(res[name].direct_deps[i])
            /\ res[name].direct_deps = SurvivingInputs(name)

\* A rule whose ruleInput lists a surviving label and then an external label
\* that is itself a RULE record of the list: only the first is kept.
C5_Witness ==
    /\ Transformed
    /\ \E name \in DOMAIN res :
        LET rule == RecordOf(name)
        IN  /\ "ruleInput" \in DOMAIN rule
            /\ Len(rule.ruleInput) = 2
            /\ Admissible(rule.ruleInput[1])
            /\ rule.ruleInput[2] = LG
            /\ LG \in RuleRecordNames
            /\ res[name].direct_deps = <<rule.ruleInput[1]>>

\* The names of the RULE records that lack nothing that is read with [].
WellFormedRules ==
    {qr[i].rule.name :
        i \in {j \in DOMAIN qr : ~RaisesKeyError(<<qr[j]>>) /\ IsRule(qr[j])}}

\* C35: no list of records makes the transform raise: a record that lacks
\* an attribute is passed over or read with the attribute empty, and every
\* well-formed RULE record of the list has its node.
C35_AsStated ==
    tstatus # "idle" => (tstatus = "ok" /\ WellFormedRules \subseteq DOMAIN res)

\* The same for the lists in which every record has its type, every RULE
\* record its rule with name and ruleClass, and every attribute with a
\* stringListValue its name: a rule without ruleInput, without attribute
\* list, or with an attribute without stringListValue has its node, with the
\* missing part empty.
C35_OptionalPartsDefault ==
    (tstatus # "idle" /\ ~RaisesKeyError(qr)) =>
        /\ tstatus = "ok"
        /\ WellFormedRules = DOMAIN res
        /\ \A i \in DOMAIN qr :
              IsRule(qr[i]) /\ (\A j \in DOMAIN qr : IsRule(qr[j]) /\ j > i
                                    => qr[j].rule.name # qr[i].rule.name) =>
                  LET rule == qr[i].rule
                      node == res[rule.name]
                  IN  /\ "ruleInput" \notin DOMAIN rule => node.direct_deps = <<>>
                      /\ (\A k \in DOMAIN Get(rule, "attribute", <<>>) :
                              "stringListValue" \notin DOMAIN rule.attribute[k])
                            => (node.deps = {} /\ node.exports = <<>>)

\* A rule whose only attribute has neither name nor stringListValue.
C35_OptionalPartsDefaultWitness ==
    /\ tstatus = "ok"
    /\ \E i \in DOMAIN qr :
          /\ IsRule(qr[i])
          /\ "attribute" \in DOMAIN qr[i].rule
          /\ qr[i].rule.attribute = << <<>> >>
          /\ res[qr[i].rule.name].exports = <<>>

(***************************************************************************)
(* Artifact sync: scip_utils.copy_index.                                   *)
(*                                                                         *)
(* The source tree and the cache directory are maps from a path or an      *)
(* entry name to the content of the file; a cache entry that is a          *)
(* directory has the content Dir.  The workers of the thread pool run      *)
(* process_and_copy_scip_index concurrently, one artifact each; a worker   *)
(* is interleaved with the others between its two shutil.copy calls.       *)
(***************************************************************************)
MaxRuns == 2   \* copy_index runs in one behaviour

JDK_SCIP_FILE_PREFIX == "jdk_temurin"
SHA256_FILE_SUFFIX == ".sha256"
WORKSPACE_FILE_NAME == "workspace.json"

Dir == "<dir>"

\* str.replace(old, new) for a one-character old.
RECURSIVE StrReplace(_, _, _)
StrReplace(s, old, new) ==
    IF Len(s) = 0 THEN s
    ELSE (IF SubSeq(s, 1, 1) = old THEN new ELSE SubSeq(s, 1, 1))
         \o StrReplace(SubSeq(s, 2, Len(s)), old, new)

\* s.split(sep)[-1]: what follows the last occurrence of sep, s without one.
RECURSIVE LastPart(_, _, _)
LastPart(s, sep, from) ==
    IF from < 1 THEN s
    ELSE IF from + Len(sep) - 1 <= Len(s) /\ SubSeq(s, from, from + Len(sep) - 1) = sep
         THEN SubSeq(s, from + Len(sep), Len(s))
         ELSE LastPart(s, sep, from - 1)

\* relative_path.replace("/", "_").replace("-", "_")
scip_index_name(source_path) ==
    LET relative_path == LastPart(source_path, "/bin/", Len(source_path))
    IN  StrReplace(StrReplace(relative_path, "/", "_"), "-", "_")

\* str.strip()
RECURSIVE Strip(_)
Strip(s) ==
    IF Len(s) = 0 THEN s
    ELSE IF SubSeq(s, 1, 1) \in {" ", "\n"} THEN Strip(SubSeq(s, 2, Len(s)))
    ELSE IF SubSeq(s, Len(s), Len(s)) \in {" ", "\n"} THEN Strip(SubSeq(s, 1, Len(s) - 1))
    ELSE s

\* get_sha256_for_file: the stripped content, None (Absent) without the file.
get_sha256_for_file(files, file_path) ==
    IF file_path \in DOMAIN files THEN Strip(files[file_path]) ELSE Absent

\* Python truthiness of a digest: neither None nor the empty string.
Truthy(sha) == sha # Absent /\ sha # ""

\* The artifacts a build can hand to copy_index.  A1 and A2 are distinct
\* paths with one canonical name.
A1 == "bazel-out/bin/p/a-b.scip"
A2 == "bazel-out/bin/p/a_b.scip"
A3 == "bazel-out/bin/q/c.scip"
Sources == {A1, A2, A3}
IndexSets == {{}, {A3}, {A1, A3}, {A1, A2}}

CacheName == [a \in Sources |-> scip_index_name(a)]

\* What generation gen of the build writes: the index and its digest line.
IndexOf(gen) == "scip" \o ToString(gen)
SidecarOf(gen) == "sha" \o ToString(gen) \o "\n"

\* The source trees before the first run.  A2 may come from the same
\* generation as A1 or from an older one; the sidecar of A3 may be present,
\* blank or missing.
InitialSources ==
    {(A1 :> IndexOf(1)) @@ (A1 \o SHA256_FILE_SUFFIX :> SidecarOf(1)) @@
     (A2 :> IndexOf(g)) @@ (A2 \o SHA256_FILE_SUFFIX :> SidecarOf(g)) @@
     (A3 :> IndexOf(1)) @@ s :
        g \in {0, 1},
        s \in Opt(A3 \o SHA256_FILE_SUFFIX, {SidecarOf(1), "\n"})}

\* The cache directory of test_copy_index, with a directory added.
InitialCache ==
    ("q_c.scip" :> IndexOf(1)) @@ ("q_c.scip.sha256" :> SidecarOf(1)) @@
    ("old_index.scip" :> IndexOf(0)) @@ ("old_index.scip.sha256" :> SidecarOf(0)) @@
    ("jdk_temurin_11.scip" :> "jdk") @@ ("jdk_temurin_11.scip.sha256" :> "jdksha\n") @@
    (WORKSPACE_FILE_NAME :> "{}") @@ ("tmp" :> Dir)

InitCopy ==
    /\ src_files \in InitialSources
    /\ cache = InitialCache
    /\ cpc = "idle"
    /\ index_to_copy = {}
    /\ current_status = <<>>
    /\ task = <<>>
    /\ copy_log = {}
    /\ delete_log = {}
    /\ runs_done = 0
    /\ prev = [src |-> <<>>, last |-> <<>>]
    /\ ClosureUnused /\ TransformUnused /\ WorkspaceUnused /\ MainUnused
    /\ JoinUnused /\ QueryUnused
    /\ PopulateUnused /\ StageUnused /\ FragmentUnused /\ WalkUnused /\ PwUnused

\* get_current_status over the *.scip entries of the listing.
CurrentStatus(files) ==
    LET listed == {f \in DOMAIN files : EndsWith(f, ".scip")}
        sha(f) == get_sha256_for_file(files, f \o SHA256_FILE_SUFFIX)
    IN  [f \in {g \in listed : Truthy(sha(g))} |-> sha(f)]

\* copy_index(index_to_copy, dest) up to the start of the workers.
StartCopy(S) ==
    /\ cpc \in {"idle", "done"}
    /\ runs_done < MaxRuns
    /\ cpc' = "copying"
    /\ index_to_copy' = S
    /\ current_status' = CurrentStatus(cache)
    /\ task' = [a \in S |-> "todo"]
    /\ copy_log' = {}
    /\ delete_log' = {}
    /\ prev' = [src |-> src_files,
                last |-> IF cpc = "idle" THEN <<>>
                         ELSE [index_to_copy |-> index_to_copy, src |-> prev.src,
                               task |-> task]]
    /\ UNCHANGED <<src_files, cache, runs_done>>
    /\ UNCHANGED <<closureVars, transformVars, workspaceVars, mainVars,
                   joinVars, queryVars,
                   populateVars, stageVars, fragmentVars, walkVars, pwVars>>

\* The negation of "scip_index_name in current_status and
\* current_status[scip_index_name] == new_sha".
CopyNeeded(cached, name, new_sha) ==
    ~(name \in DOMAIN cached /\ cached[name] = new_sha)

\* A worker up to and including shutil.copy(source_path, dest_index_path);
\* read_ok = FALSE is the read of the digest raising something other than
\* FileNotFoundError, io_ok = FALSE is the copy raising.
CheckAndCopyIndex(a, read_ok, io_ok) ==
    /\ cpc = "copying"
    /\ a \in DOMAIN task
    /\ task[a] = "todo"
    /\ LET name == CacheName[a]
           new_sha == get_sha256_for_file(src_files, a \o SHA256_FILE_SUFFIX)
       IN  IF ~read_ok
           THEN /\ task' = [task EXCEPT ![a] = "failed"]
                /\ UNCHANGED <<cache, copy_log>>
           ELSE IF ~CopyNeeded(current_status, name, new_sha)
           THEN /\ task' = [task EXCEPT ![a] = "kept"]
                /\ UNCHANGED <<cache, copy_log>>
           ELSE IF io_ok /\ a \in DOMAIN src_files
           THEN /\ cache' = (name :> src_files[a]) @@ cache
                /\ copy_log' = copy_log \cup {<<a, name>>}
                /\ task' = [task EXCEPT ![a] = "index_copied"]
           ELSE /\ task' = [task EXCEPT ![a] = "failed"]
                /\ UNCHANGED <<cache, copy_log>>
    /\ UNCHANGED <<src_files, cpc, index_to_copy, current_status, delete_log,
                   runs_done, prev>>
    /\ UNCHANGED <<closureVars, transformVars, workspaceVars, mainVars,
                   joinVars, queryVars,
                   populateVars, stageVars, fragmentVars, walkVars, pwVars>>

\* The worker's second shutil.copy, of the sidecar; it raises when the
\* source has no sidecar or the copy fails (io_ok = FALSE).
CopySidecar(a, io_ok) ==
    /\ cpc = "copying"
    /\ a \in DOMAIN task
    /\ task[a] = "index_copied"
    /\ LET name == CacheName[a] \o SHA256_FILE_SUFFIX
           source_sha_path == a \o SHA256_FILE_SUFFIX
       IN  IF io_ok /\ source_sha_path \in DOMAIN src_files
           THEN /\ cache' = (name :> src_files[source_sha_path]) @@ cache
                /\ copy_log' = copy_log \cup {<<source_sha_path, name>>}
                /\ task' = [task EXCEPT ![a] = "copied"]
           ELSE /\ task' = [task EXCEPT ![a] = "failed"]
                /\ UNCHANGED <<cache, copy_log>>
    /\ UNCHANGED <<src_files, cpc, index_to_copy, current_status, delete_log,
                   runs_done, prev>>
    /\ UNCHANGED <<closureVars, transformVars, workspaceVars, mainVars,
                   joinVars, queryVars,
                   populateVars, stageVars, fragmentVars, walkVars, pwVars>>

\* Mutant: only the first name of each returned pair is kept.
FilesToKeepIndexOnly(tasks) ==
    {CacheName[a] : a \in {b \in DOMAIN tasks : tasks[b] \in {"kept", "copied"}}}

\* The names the workers returned: a pair per artifact kept or copied.
FilesToKeep(tasks) ==
    UNION {{CacheName[a], CacheName[a] \o SHA256_FILE_SUFFIX} :
              a \in {b \in DOMAIN tasks : tasks[b] \in {"kept", "copied"}}}

\* Mutant: the reserved prefix is not filtered out.
files_to_delete_unfiltered(listing, files_to_keep) ==
    (listing \ files_to_keep) \ {WORKSPACE_FILE_NAME}

files_to_delete(listing, files_to_keep) ==
    {f \in (listing \ files_to_keep) \ {WORKSPACE_FILE_NAME} :
        ~StartsWith(f, JDK_SCIP_FILE_PREFIX)}

\* "Delete old files", once every worker has returned: os.remove for a
\* file, shutil.rmtree for a directory.
Cleanup ==
    /\ cpc = "copying"
    /\ \A a \in DOMAIN task : task[a] \in {"kept", "copied", "failed"}
    /\ LET doomed == files_to_delete(DOMAIN cache, FilesToKeep(task))
       IN  /\ cache' = [f \in DOMAIN cache \ doomed |-> cache[f]]
           /\ delete_log' = doomed
    /\ cpc' = "done"
    /\ runs_done' = runs_done + 1
    /\ UNCHANGED <<src_files, index_to_copy, current_status, task, copy_log, prev>>
    /\ UNCHANGED <<closureVars, transformVars, workspaceVars, mainVars,
                   joinVars, queryVars,
                   populateVars, stageVars, fragmentVars, walkVars, pwVars>>

\* Between two runs the build regenerates an artifact: new index, and a new
\* digest line when the artifact has a sidecar with a digest.
Regenerate(a) ==
    /\ cpc = "done"
    /\ runs_done < MaxRuns
    /\ src_files[a] # IndexOf(runs_done + 1)
    /\ LET sidecar == a \o SHA256_FILE_SUFFIX
           has_digest == Truthy(get_sha256_for_file(src_files, sidecar))
       IN  src_files' =
               (a :> IndexOf(runs_done + 1)) @@
               (IF has_digest THEN sidecar :> SidecarOf(runs_done + 1) ELSE <<>>) @@
               src_files
    /\ UNCHANGED <<cache, cpc, index_to_copy, current_status, task, copy_log,
                   delete_log, runs_done, prev>>
    /\ UNCHANGED <<closureVars, transformVars, workspaceVars, mainVars,
                   joinVars, queryVars,
                   populateVars, stageVars, fragmentVars, walkVars, pwVars>>

NextCopy ==
    \/ \E S \in IndexSets : StartCopy(S)
    \/ \E a \in Sources, read_ok \in BOOLEAN, io_ok \in BOOLEAN :
          CheckAndCopyIndex(a, read_ok, io_ok)
    \/ \E a \in Sources, io_ok \in BOOLEAN : CopySidecar(a, io_ok)
    \/ Cleanup
    \/ \E a \in Sources : Regenerate(a)

SpecCopy == InitCopy /\ [][NextCopy]_vars

(***************************************************************************)
(* Properties of the artifact sync.                                        *)
(***************************************************************************)
RunDone == cpc = "done"

\* The run just completed follows another run on the same artifact set.
SecondRunSameSet ==
    /\ RunDone
    /\ prev.last # <<>>
    /\ prev.last.index_to_copy = index_to_copy
    /\ index_to_copy # {}

\* The digest line of an artifact when a run started.
DigestAt(src, a) == get_sha256_for_file(src, a \o SHA256_FILE_SUFFIX)

\* Every artifact of the set had a sidecar with a digest in both runs, and
\* no worker of either run raised.
BothRunsClean ==
    /\ \A a \in index_to_copy :
        Truthy(DigestAt(prev.last.src, a)) /\ Truthy(DigestAt(prev.src, a))
    /\ \A a \in index_to_copy :
        prev.last.task[a] # "failed" /\ task[a] # "failed"

\* The artifacts of the set whose index or digest line differs between the
\* starts of the two runs.
ChangedArtifacts ==
    {a \in index_to_copy :
        \/ prev.last.src[a] # prev.src[a]
        \/ DigestAt(prev.last.src, a) # DigestAt(prev.src, a)}

CopiedInto == {c[2] : c \in copy_log}

CachedFilesOf(a) == {CacheName[a], CacheName[a] \o SHA256_FILE_SUFFIX}

NoNameShared(S) == \A a, b \in S : a # b => CacheName[a] # CacheName[b]

\* C6: when a run follows a run on the same artifact set and no artifact or
\* digest line changed in between, the second run copies nothing and deletes
\* nothing.  Read with every sidecar present and no worker raising.
C6_AsStated ==
    (SecondRunSameSet /\ BothRunsClean /\ ChangedArtifacts = {}) =>
        copy_log = {} /\ delete_log = {}

\* The same for artifact sets in which no two paths share a canonical name.
C6_DistinctNames ==
    (SecondRunSameSet /\ BothRunsClean /\ ChangedArtifacts = {}
        /\ NoNameShared(index_to_copy)) =>
        copy_log = {} /\ delete_log = {}

C6_DistinctNamesWitness ==
    /\ SecondRunSameSet /\ BothRunsClean /\ ChangedArtifacts = {}
    /\ index_to_copy = {A1, A3}
    /\ \A a \in index_to_copy : task[a] = "kept"

\* C7: when exactly one artifact's digest changed between two runs on the
\* same set, the second run copies that artifact and its sidecar and nothing
\* else, and no cached file of another artifact of the set is written or
\* deleted.  Read with every sidecar present and no worker raising.
C7_AsStated ==
    (SecondRunSameSet /\ BothRunsClean) =>
        \A a \in index_to_copy :
            ChangedArtifacts = {a} =>
                /\ copy_log = {<<a, CacheName[a]>>,
                               <<a \o SHA256_FILE_SUFFIX, CacheName[a] \o SHA256_FILE_SUFFIX>>}
                /\ \A b \in index_to_copy \ {a} :
                    CachedFilesOf(b) \cap (CopiedInto \cup delete_log) = {}

\* The same for artifact sets in which no two paths share a canonical name.
C7_DistinctNames ==
    (SecondRunSameSet /\ BothRunsClean /\ NoNameShared(index_to_copy)) =>
        \A a \in index_to_copy :
            ChangedArtifacts = {a} =>
                /\ copy_log = {<<a, CacheName[a]>>,
                               <<a \o SHA256_FILE_SUFFIX, CacheName[a] \o SHA256_FILE_SUFFIX>>}
                /\ \A b \in index_to_copy \ {a} :
                    CachedFilesOf(b) \cap (CopiedInto \cup delete_log) = {}

C7_DistinctNamesWitness ==
    /\ SecondRunSameSet /\ BothRunsClean
    /\ index_to_copy = {A1, A3}
    /\ ChangedArtifacts = {A3}
    /\ task[A3] = "copied" /\ task[A1] = "kept"

\* C33: no two artifact paths of a run have the same canonical cache name,
\* and no cache file is written from two artifacts in one run.
C33_AsStated ==
    /\ \A a, b \in index_to_copy : CacheName[a] = CacheName[b] => a = b
    /\ \A c, d \in copy_log : c[2] = d[2] => c[1] = d[1]

\* The workers of a run never write one cache file from two artifacts when
\* the artifact set of the run shares no canonical name.
C33_DistinctNames ==
    NoNameShared(index_to_copy) => \A c, d \in copy_log : c[2] = d[2] => c[1] = d[1]

Reserved(f) == StartsWith(f, JDK_SCIP_FILE_PREFIX) \/ f = WORKSPACE_FILE_NAME

\* C8: no run deletes a cache entry whose name starts with the reserved
\* prefix, nor the workspace document: every such entry of the cache is
\* still there after any number of runs and is never among the entries a
\* cleanup removed.
C8_ReservedNeverDeleted ==
    /\ \A f \in DOMAIN InitialCache : Reserved(f) => f \in DOMAIN cache
    /\ \A f \in delete_log : ~Reserved(f)

\* A cleanup that removed entries after a worker raised, with no reserved
\* entry among the names the workers returned.
C8_Witness ==
    /\ RunDone
    /\ delete_log # {}
    /\ \E a \in index_to_copy : task[a] = "failed"
    /\ \A f \in DOMAIN InitialCache : Reserved(f) => f \notin FilesToKeep(task)
    /\ {"jdk_temurin_11.scip", "jdk_temurin_11.scip.sha256", WORKSPACE_FILE_NAME}
           \subseteq DOMAIN cache

\* The artifacts of the run whose worker returned its pair of names.
Processed == {a \in index_to_copy : task[a] \in {"kept", "copied"}}

\* C38: after a completed run the cache holds, apart from workspace.json and
\* the entries with the reserved prefix, exactly the canonical names and the
\* sidecar names of the artifacts kept or copied in the run; nothing is
\* removed while the workers run, and no name of a kept or copied artifact
\* is ever removed.
C38_CacheIsStillValidSet ==
    /\ RunDone =>
          /\ {f \in DOMAIN cache : ~Reserved(f)}
                = {f \in UNION {CachedFilesOf(a) : a \in Processed} : ~Reserved(f)}
          /\ \A a \in Processed : CachedFilesOf(a) \subseteq DOMAIN cache
          /\ delete_log \cap UNION {CachedFilesOf(a) : a \in Processed} = {}
    /\ cpc = "copying" => delete_log = {}

\* A run that kept one artifact, copied another and removed the directory
\* and the stale index of the cache.
C38_Witness ==
    /\ RunDone
    /\ index_to_copy = {A1, A3}
    /\ task[A3] = "kept" /\ task[A1] = "copied"
    /\ {"tmp", "old_index.scip", "old_index.scip.sha256"} \subseteq delete_log
    /\ {"p_a_b.scip", "p_a_b.scip.sha256", "q_c.scip", "q_c.scip.sha256"}
          \subseteq DOMAIN cache

(***************************************************************************)
(* Workspace store: workspace.ScipWorkspace and write_workspace.           *)
(*                                                                         *)
(* A Python dict is a function; the store is the record of the three       *)
(* dataclass fields.  workspace.json is kept as the JSON value written:    *)
(* a tree of objects, strings and numbers.                                 *)
(***************************************************************************)
MaxLinks == 3   \* add_link calls between two clear() calls

JAVA_MANIFEST == "JAVA_MANIFEST"
BAZEL_TARGET == "BAZEL_TARGET"
WorkspaceLinkType == {JAVA_MANIFEST, BAZEL_TARGET}

\* ScipWorkspace(): the field defaults.
ScipWorkspace == [files |-> <<>>, links |-> <<>>, _last_link_id |-> 0]

\* Mutant: the id is numbered within the table of its own link type.
add_link_numbered_per_type(w, link, link_type) ==
    LET type_links == Get(w.links, link_type, <<>>)
        id == ToString(Cardinality(DOMAIN type_links) + 1)
    IN  [ws |-> [w EXCEPT !._last_link_id = @ + 1,
                          !.links = (link_type :> ((id :> link) @@ type_links)) @@ @],
         id |-> id]

\* add_link(link, link_type): the store after the call and the id returned.
add_link(w, link, link_type) ==
    LET last == w._last_link_id + 1
        id == ToString(last)
        type_links == Get(w.links, link_type, <<>>)
    IN  [ws |-> [w EXCEPT !._last_link_id = last,
                          !.links = (link_type :> ((id :> link) @@ type_links)) @@ @],
         id |-> id]

\* add_file(file, link_id, link_type): files[file].update({name: str(link_id)}).
add_file(w, file, link_id, link_type) ==
    LET entry == Get(w.files, file, <<>>)
    IN  [w EXCEPT !.files = (file :> ((link_type :> ToString(link_id)) @@ entry)) @@ @]

\* clear()
clear(w) == [w EXCEPT !.files = <<>>, !.links = <<>>, !._last_link_id = 0]

\* JSON values.
JObject(members) == [kind |-> "object", members |-> members]
JString(value) == [kind |-> "string", value |-> value]
JNumber(value) == [kind |-> "number", value |-> value]

\* Mutant: the field whose name starts with an underscore is left out.
asdict_public(w) == [files |-> w.files, links |-> w.links]

\* dataclasses.asdict: a dict of the fields, nested dicts copied.
asdict(w) ==
    [files |-> w.files, links |-> w.links, _last_link_id |-> w._last_link_id]

\* json.dump of a dict of dicts of strings.
DumpTable(table) ==
    JObject([k \in DOMAIN table |->
                JObject([j \in DOMAIN table[k] |-> JString(table[k][j])])])

\* json.dump of the dictionary asdict gives.
json_dump(workspace_dict) ==
    JObject([k \in DOMAIN workspace_dict |->
                IF k = "_last_link_id" THEN JNumber(workspace_dict[k])
                ELSE DumpTable(workspace_dict[k])])

\* json.load: objects become dicts, strings and numbers their values.
RECURSIVE json_load(_)
json_load(node) ==
    IF node.kind = "object"
    THEN [k \in DOMAIN node.members |-> json_load(node.members[k])]
    ELSE node.value

\* ScipWorkspace(**json_obj): a missing keyword takes the field default.
FromJson(json_obj) ==
    [files |-> Get(json_obj, "files", ScipWorkspace.files),
     links |-> Get(json_obj, "links", ScipWorkspace.links),
     _last_link_id |-> Get(json_obj, "_last_link_id", ScipWorkspace._last_link_id)]

LinkValues == {"//a:t", "a_options"}
FileNames == {"A.java", "B.java"}

InitWorkspace ==
    /\ ws = ScipWorkspace
    /\ returned = <<>>
    /\ wpc = "open"
    /\ ws_doc = Absent
    /\ loaded = Absent
    /\ ClosureUnused /\ TransformUnused /\ CopyUnused /\ MainUnused
    /\ JoinUnused /\ QueryUnused
    /\ PopulateUnused /\ StageUnused /\ FragmentUnused /\ WalkUnused /\ PwUnused

AddLink(link, link_type) ==
    /\ wpc = "open"
    /\ ws._last_link_id < MaxLinks
    /\ LET r == add_link(ws, link, link_type)
       IN  /\ ws' = r.ws
           /\ returned' = Append(returned, r.id)
    /\ UNCHANGED <<wpc, ws_doc, loaded>>
    /\ UNCHANGED <<closureVars, transformVars, copyVars, mainVars,
                   joinVars, queryVars,
                   populateVars, stageVars, fragmentVars, walkVars, pwVars>>

AddFile(file, link_id, link_type) ==
    /\ wpc = "open"
    /\ ws' = add_file(ws, file, link_id, link_type)
    /\ UNCHANGED <<returned, wpc, ws_doc, loaded>>
    /\ UNCHANGED <<closureVars, transformVars, copyVars, mainVars,
                   joinVars, queryVars,
                   populateVars, stageVars, fragmentVars, walkVars, pwVars>>

Clear ==
    /\ wpc = "open"
    /\ ws' = clear(ws)
    /\ returned' = <<>>
    /\ UNCHANGED <<wpc, ws_doc, loaded>>
    /\ UNCHANGED <<closureVars, transformVars, copyVars, mainVars,
                   joinVars, queryVars,
                   populateVars, stageVars, fragmentVars, walkVars, pwVars>>

\* write_workspace(workspace, dest)
WriteWorkspace ==
    /\ wpc = "open"
    /\ ws_doc' = json_dump(asdict(ws))
    /\ wpc' = "written"
    /\ UNCHANGED <<ws, returned, loaded>>
    /\ UNCHANGED <<closureVars, transformVars, copyVars, mainVars,
                   joinVars, queryVars,
                   populateVars, stageVars, fragmentVars, walkVars, pwVars>>

\* get_manifest_for_file: get_json and ScipWorkspace(**json_obj).
LoadWorkspace ==
    /\ wpc = "written"
    /\ loaded' = FromJson(json_load(ws_doc))
    /\ wpc' = "loaded"
    /\ UNCHANGED <<ws, returned, ws_doc>>
    /\ UNCHANGED <<closureVars, transformVars, copyVars, mainVars,
                   joinVars, queryVars,
                   populateVars, stageVars, fragmentVars, walkVars, pwVars>>

NextWorkspace ==
    \/ \E link \in LinkValues, link_type \in WorkspaceLinkType : AddLink(link, link_type)
    \/ \E file \in FileNames, link_id \in 1..MaxLinks, link_type \in WorkspaceLinkType :
          AddFile(file, link_id, link_type)
    \/ Clear
    \/ WriteWorkspace
    \/ LoadWorkspace

SpecWorkspace == InitWorkspace /\ [][NextWorkspace]_vars

(***************************************************************************)
(* Properties of the workspace store.                                      *)
(***************************************************************************)
Reloaded == wpc = "loaded"

IdsUnder(link_type) == DOMAIN Get(ws.links, link_type, <<>>)

\* C10: the ids add_link returned since the store was built or cleared are
\* "1", "2", ... in the order of the calls, as many as the counter says,
\* whatever the link types; an id is a key of one link table only; and a
\* step changes the counter either by adding one or by resetting it to zero
\* together with both tables.
C10_SharedCounter ==
    /\ [](/\ Len(returned) = ws._last_link_id
          /\ \A i \in DOMAIN returned : returned[i] = ToString(i)
          /\ \A i, j \in DOMAIN returned : i # j => returned[i] # returned[j]
          /\ IdsUnder(JAVA_MANIFEST) \cap IdsUnder(BAZEL_TARGET) = {}
          /\ IdsUnder(JAVA_MANIFEST) \cup IdsUnder(BAZEL_TARGET) = Range(returned))
    /\ [][ws._last_link_id' # ws._last_link_id =>
            \/ ws._last_link_id' = ws._last_link_id + 1
            \/ /\ ws._last_link_id' = 0
               /\ ws.files' = <<>>
               /\ ws.links' = <<>>]_vars

\* Three ids returned, the first two under one type and the third under the
\* other.
C10_Witness ==
    /\ returned = <<"1", "2", "3">>
    /\ IdsUnder(BAZEL_TARGET) = {"1", "2"}
    /\ IdsUnder(JAVA_MANIFEST) = {"3"}
    /\ ws._last_link_id = 3

\* C11: every link id stored under a file for a link type is a key of the
\* links table of that type.
C11_AsStated ==
    \A f \in DOMAIN ws.files :
        \A link_type \in DOMAIN ws.files[f] :
            ws.files[f][link_type] \in IdsUnder(link_type)

(***************************************************************************)
(* Workspace population: workspace.populate_workspace.                     *)
(*                                                                         *)
(* target_to_output is a dict in insertion order: a sequence of            *)
(* <<target, mnemonics>> pairs with distinct targets, mnemonics a function *)
(* from a mnemonic to the list of its output paths.  The build tree is a   *)
(* function from a path to the text of the file.                           *)
(***************************************************************************)
INDEX_OUTPUT_MNEMONIC == "scipMutation"
JAVA_TARGET_MANIFEST_MNEMONIC == "TemplateExpand"
UNPACKED_JAVA_SOURCES_MNEMONIC == "scipFindUnpackedJavaSources"

\* str.split("\n")
RECURSIVE SplitLines(_, _)
SplitLines(text, line) ==
    IF Len(text) = 0 THEN <<line>>
    ELSE IF SubSeq(text, 1, 1) = "\n"
         THEN <<line>> \o SplitLines(SubSeq(text, 2, Len(text)), "")
         ELSE SplitLines(SubSeq(text, 2, Len(text)), line \o SubSeq(text, 1, 1))

\* The loop of get_string_lines: strip every line, keep the non-empty ones.
RECURSIVE NormalizedLines(_)
NormalizedLines(lines) ==
    IF lines = <<>> THEN <<>>
    ELSE (IF Strip(Head(lines)) # "" THEN <<Strip(Head(lines))>> ELSE <<>>)
         \o NormalizedLines(Tail(lines))

get_string_lines(content) == NormalizedLines(SplitLines(content, ""))

\* add_file with the id add_link returned: str() of a string is the string.
add_file_str(w, file, link_id, link_type) ==
    LET entry == Get(w.files, file, <<>>)
    IN  [w EXCEPT !.files = (file :> ((link_type :> link_id) @@ entry)) @@ @]

\* The loop of add_files_for_target over the listed files.
RECURSIVE AddFilesLoop(_, _, _, _)
AddFilesLoop(w, files, target_id, manifest_id) ==
    IF files = <<>> THEN w
    ELSE AddFilesLoop(
            add_file_str(add_file_str(w, Head(files), target_id, BAZEL_TARGET),
                         Head(files), manifest_id, JAVA_MANIFEST),
            Tail(files), target_id, manifest_id)

\* Mutant: the manifest link is allocated before the target link.
add_files_for_target_manifest_first(w, target, files, manifest) ==
    LET m == add_link(w, manifest, JAVA_MANIFEST)
        t == add_link(m.ws, target, BAZEL_TARGET)
    IN  AddFilesLoop(t.ws, files, t.id, m.id)

add_files_for_target(w, target, files, manifest) ==
    LET t == add_link(w, target, BAZEL_TARGET)
        m == add_link(t.ws, manifest, JAVA_MANIFEST)
    IN  AddFilesLoop(m.ws, files, t.id, m.id)

\* "file and file.endswith('_options')"
IsOptionsFile(file) == file # Absent /\ EndsWith(file, "_options")

\* Mutant: every manifest that is not None is kept, whatever its suffix.
options_manifests_unfiltered(manifests) ==
    SelectSeq(manifests, LAMBDA file : file # Absent)

\* "[file for file in manifests if file and file.endswith('_options')]"
options_manifests(manifests) == SelectSeq(manifests, IsOptionsFile)

\* Mutant: no os.path.exists test; a source list that is not on disk reads
\* as an empty list of files.
pair_step_unchecked(w, target, manifests, sources_lists, tree, index) ==
    IF index > Len(sources_lists) THEN w
    ELSE IF sources_lists[index] = Absent THEN w
    ELSE add_files_for_target(w, target,
             IF sources_lists[index] \in DOMAIN tree
             THEN get_string_lines(tree[sources_lists[index]]) ELSE <<>>,
             manifests[index])

\* One iteration of the enumerate loop of add_to_workspace: the index-th
\* manifest (counted from 1) and the source list at the same index.
pair_step(w, target, manifests, sources_lists, tree, index) ==
    IF index > Len(sources_lists) THEN w
    ELSE IF sources_lists[index] = Absent THEN w
    ELSE IF sources_lists[index] \notin DOMAIN tree THEN w
    ELSE add_files_for_target(w, target,
             get_string_lines(tree[sources_lists[index]]), manifests[index])

\* The enumerate loop of add_to_workspace, from the index-th manifest on.
RECURSIVE ManifestLoop(_, _, _, _, _, _)
ManifestLoop(w, target, manifests, sources_lists, tree, index) ==
    IF index > Len(manifests) THEN w
    ELSE ManifestLoop(pair_step(w, target, manifests, sources_lists, tree, index),
                      target, manifests, sources_lists, tree, index + 1)

add_to_workspace(w, target, target_mnemonics, tree) ==
    LET manifests ==
            options_manifests(
                Get(target_mnemonics, JAVA_TARGET_MANIFEST_MNEMONIC, <<Absent>>))
        sources_lists ==
            Get(target_mnemonics, UNPACKED_JAVA_SOURCES_MNEMONIC, <<Absent>>)
    IN  ManifestLoop(w, target, manifests, sources_lists, tree, 1)

\* Mutant: only the targets of //3rdparty/ are skipped.
skip_target_3rdparty_only(target) == StartsWith(target, "//3rdparty/")

\* "if target.startswith('//3rdparty/') or target.startswith('bazel-out'):
\* continue"
skip_target(target) ==
    StartsWith(target, "//3rdparty/") \/ StartsWith(target, "bazel-out")

\* create_workspace(cwd)
create_workspace == ScipWorkspace

\* The loop of populate_workspace, third-party targets skipped.
RECURSIVE PopulateLoop(_, _, _)
PopulateLoop(w, target_to_output, tree) ==
    IF target_to_output = <<>> THEN w
    ELSE LET target == Head(target_to_output)[1]
         IN  PopulateLoop(
                IF skip_target(target) THEN w
                ELSE add_to_workspace(w, target, Head(target_to_output)[2], tree),
                Tail(target_to_output), tree)

populate_workspace(target_to_output, tree) ==
    PopulateLoop(create_workspace, target_to_output, tree)

(***************************************************************************)
(* The entry point: scip_sync.main, with workspace.get_manifest_for_file   *)
(* and scip_utils.get_mnemonic_output.                                     *)
(*                                                                         *)
(* The closure query, the build, the action-graph query, the single-file   *)
(* indexer and the copies are external steps: a run records which of them  *)
(* it made, and their outcomes are inputs of the run.                      *)
(***************************************************************************)

\* Mutant: the link of the other type is returned.
get_manifest_for_file_target(document, file) ==
    IF document.kind = "absent" THEN [status |-> "returned", manifest |-> Absent]
    ELSE IF document.kind = "invalid" THEN [status |-> "JSONDecodeError", manifest |-> Absent]
    ELSE IF document.kind # "object" THEN [status |-> "TypeError", manifest |-> Absent]
    ELSE LET workspace == FromJson(json_load(document))
             file_links == Get(workspace.files, file, <<>>)
             link == Get(file_links, BAZEL_TARGET, Absent)
         IN  [status |-> "returned",
              manifest |-> Get(Get(workspace.links, BAZEL_TARGET, <<>>), link, Absent)]

\* get_manifest_for_file(file, dest) on the document at dest: the outcome
\* and the value returned (Absent is None).  json.load raises on a text that
\* is not JSON; ScipWorkspace(**json_obj) raises TypeError on a value that is
\* not an object and on a keyword that is not a field.
get_manifest_for_file(document, file) ==
    IF document.kind = "absent" THEN [status |-> "returned", manifest |-> Absent]
    ELSE IF document.kind = "invalid" THEN [status |-> "JSONDecodeError", manifest |-> Absent]
    ELSE IF document.kind # "object" THEN [status |-> "TypeError", manifest |-> Absent]
    ELSE LET json_obj == json_load(document)
         IN  IF ~(DOMAIN json_obj \subseteq DOMAIN ScipWorkspace)
             THEN [status |-> "TypeError", manifest |-> Absent]
             ELSE LET workspace == FromJson(json_obj)
                      file_links == Get(workspace.files, file, <<>>)
                      manifest_link == Get(file_links, JAVA_MANIFEST, Absent)
                  IN  [status |-> "returned",
                       manifest |->
                           IF DOMAIN file_links = {} THEN Absent
                           ELSE Get(Get(workspace.links, JAVA_MANIFEST, <<>>),
                                    manifest_link, Absent)]

\* Mutant: what the action-graph query printed is used whatever its outcome.
get_mnemonic_output_unguarded(aquery) ==
    [status |-> IF aquery.returncode # 0 THEN "CalledProcessError" ELSE "ok",
     target_to_output |-> aquery.target_to_output]

\* get_mnemonic_output: utils.output raises on a non-zero exit status and
\* _get_all_outputs on output it cannot process; both are caught.
get_mnemonic_output(aquery) ==
    [status |-> "ok",
     target_to_output |->
        IF aquery.returncode # 0 \/ ~aquery.parses THEN <<>>
        ELSE aquery.target_to_output]

\* The working directory given with --cwd.
CWD == "/w"

\* Documents found at the start: none, a text that is not JSON, a number, an
\* object with a field the store does not have, and workspace documents (the
\* ones of the unit tests among them).
TestDocument ==
    JObject(("files" :> DumpTable("file1.java" :> (JAVA_MANIFEST :> "1")))
         @@ ("links" :> DumpTable(JAVA_MANIFEST :> ("1" :> "manifest1"))))

RootsDocument ==
    JObject(("files" :> DumpTable("file1.java" :>
                (BAZEL_TARGET :> "1" @@ JAVA_MANIFEST :> "2" @@ "JAVA_SOURCE_ROOTS" :> "3")))
         @@ ("links" :> DumpTable((BAZEL_TARGET :> ("1" :> "//a:t"))
                               @@ (JAVA_MANIFEST :> ("2" :> "a_manifest.jar"))
                               @@ ("JAVA_SOURCE_ROOTS" :> ("3" :> "src/main/java"))))
         @@ ("_last_link_id" :> JNumber(3)))

TargetOnlyDocument ==
    JObject(("files" :> DumpTable("file1.java" :> (BAZEL_TARGET :> "1")))
         @@ ("links" :> DumpTable(BAZEL_TARGET :> ("1" :> "//a:t"))))

DanglingDocument ==
    JObject(("files" :> DumpTable("file1.java" :> (JAVA_MANIFEST :> "9")))
         @@ ("links" :> DumpTable(JAVA_MANIFEST :> ("1" :> "manifest1"))))

UnknownFieldDocument ==
    JObject(("files" :> DumpTable("file1.java" :> (JAVA_MANIFEST :> "1")))
         @@ ("links" :> DumpTable(JAVA_MANIFEST :> ("1" :> "manifest1")))
         @@ ("version" :> JNumber(1)))

InitialDocuments ==
    {NoDocument, NotJson, JNumber(7), UnknownFieldDocument, TestDocument,
     RootsDocument, TargetOnlyDocument, DanglingDocument}

\* The source lists in the build tree.
BuildTree ==
    ("a_srcs" :> "A.java\nB.java\n") @@ ("b_srcs" :> " B.java \n\nC.java")

\* What the action-graph query can report for one target.
MnemonicsOf(index, manifests, sources) ==
    (INDEX_OUTPUT_MNEMONIC :> <<index>>)
        @@ (JAVA_TARGET_MANIFEST_MNEMONIC :> manifests)
        @@ (UNPACKED_JAVA_SOURCES_MNEMONIC :> <<sources>>)

TargetOutputs ==
    {<<"//a:t", MnemonicsOf("a.scip", <<"a.jar", "a_options">>, "a_srcs")>>,
     <<"//a:t", (INDEX_OUTPUT_MNEMONIC :> <<"a.scip">>)
                    @@ (UNPACKED_JAVA_SOURCES_MNEMONIC :> <<"a_srcs">>)>>,
     <<"//a:t", (INDEX_OUTPUT_MNEMONIC :> <<"a.scip">>)
                    @@ (JAVA_TARGET_MANIFEST_MNEMONIC :> <<"a_options">>)>>,
     <<"//a:t", MnemonicsOf("a.scip", <<"a_options">>, "gone_srcs")>>,
     <<"//b:u", MnemonicsOf("b.scip", <<"b_options">>, "b_srcs")>>,
     <<"//3rdparty/x:y", MnemonicsOf("y.scip", <<"y_options">>, "a_srcs")>>}

TargetToOutputs ==
    {<<>>} \cup {<<p>> : p \in TargetOutputs}
           \cup {<<p, q>> : p, q \in TargetOutputs}

DistinctTargets(target_to_output) ==
    \A i, j \in DOMAIN target_to_output :
        target_to_output[i][1] = target_to_output[j][1] => i = j

\* The outcomes of the action-graph query: its exit status, whether its
\* output can be processed, and the mapping the output describes.
AqueryOutcomes ==
    {[returncode |-> rc, parses |-> ok, target_to_output |-> t] :
        rc \in {0, 1}, ok \in BOOLEAN,
        t \in {t \in TargetToOutputs : DistinctTargets(t)}}

Filepaths == {"/w/A.java", "/w/file1.java", "/w/Z.java", "C.java"}
LookupFiles == {"A.java", "C.java", "file1.java", "Z.java"}
TargetArguments == {<<>>, <<"//a:t">>}

InitMain ==
    /\ workspace_json \in InitialDocuments
    /\ json_before = NoDocument
    /\ main_args = <<>>
    /\ effects = <<>>
    /\ lookup = NoLookup
    /\ main_status = "idle"
    /\ ClosureUnused /\ TransformUnused /\ CopyUnused /\ WorkspaceUnused
    /\ JoinUnused /\ QueryUnused
    /\ PopulateUnused /\ StageUnused /\ FragmentUnused /\ WalkUnused /\ PwUnused

FullSyncSteps ==
    <<"closure_query", "build", "action_graph_query",
      "populate_workspace", "write_workspace", "copy_index">>

\* Mutant: an empty closure does not end the run.
sync_steps_building_anyway(synced, buildable, out_status) ==
    IF synced = <<>> THEN <<>>
    ELSE IF out_status # "ok"
         THEN <<"closure_query", "build", "action_graph_query">>
    ELSE FullSyncSteps

\* The steps of main() without --filepath: it returns on an empty target
\* list before the closure query and on an empty closure before the build.
sync_steps(synced, buildable, out_status) ==
    IF synced = <<>> THEN <<>>
    ELSE IF buildable = {} THEN <<"closure_query">>
    ELSE IF out_status # "ok"
         THEN <<"closure_query", "build", "action_graph_query">>
    ELSE FullSyncSteps

\* main() without --filepath.  With no targets either, the targets come from
\* the project file.  buildable is what the closure query returns.
MainSync(targets, project_targets, buildable, aquery) ==
    LET synced == IF targets = <<>> THEN project_targets ELSE targets
        out == get_mnemonic_output(aquery)
        workspace == populate_workspace(out.target_to_output, BuildTree)
        steps == sync_steps(synced, buildable, out.status)
        writes == "write_workspace" \in Range(steps)
    IN  /\ main_args' = [filepath |-> Absent, targets |-> targets,
                         aquery_failed |-> aquery.returncode # 0 \/ ~aquery.parses,
                         synced |-> synced, buildable |-> buildable]
        /\ effects' = steps
        /\ workspace_json' = IF writes THEN json_dump(asdict(workspace))
                             ELSE workspace_json
        /\ json_before' = workspace_json
        /\ lookup' = NoLookup
        /\ main_status' = IF "action_graph_query" \in Range(steps) /\ out.status # "ok"
                          THEN out.status ELSE "returned"
        /\ UNCHANGED <<closureVars, transformVars, copyVars, workspaceVars,
                       joinVars, queryVars,
                       populateVars, stageVars, fragmentVars, walkVars, pwVars>>

\* Mutant: a file without a manifest falls through to the full sync.
filepath_steps_falling_through(found, index_ok) ==
    IF found.status # "returned" THEN <<"get_manifest_for_file">>
    ELSE IF found.manifest \in {Absent, ""}
         THEN <<"get_manifest_for_file">> \o FullSyncSteps
    ELSE IF ~index_ok THEN <<"get_manifest_for_file", "index_file">>
    ELSE <<"get_manifest_for_file", "index_file", "old_copy_index">>

\* The steps of the --filepath branch: the lookup, then, for a manifest that
\* is not None nor empty, the indexer and the copy of its index.  An
\* exception of any of them is caught and ends the branch.
filepath_steps(found, index_ok) ==
    IF found.status # "returned" \/ found.manifest \in {Absent, ""}
    THEN <<"get_manifest_for_file">>
    ELSE IF ~index_ok THEN <<"get_manifest_for_file", "index_file">>
    ELSE <<"get_manifest_for_file", "index_file", "old_copy_index">>

\* main() with --filepath: every path through the branch returns.
MainFilepath(targets, filepath, index_ok) ==
    LET relative_filepath == Remove(filepath, CWD \o "/")
        found == get_manifest_for_file(workspace_json, relative_filepath)
    IN  /\ main_args' = [filepath |-> filepath, targets |-> targets,
                         aquery_failed |-> FALSE,
                         synced |-> <<>>, buildable |-> {}]
        /\ lookup' = [file |-> relative_filepath, status |-> found.status,
                      manifest |-> found.manifest]
        /\ effects' = filepath_steps(found, index_ok)
        /\ main_status' = "returned"
        /\ json_before' = workspace_json
        /\ UNCHANGED workspace_json
        /\ UNCHANGED <<closureVars, transformVars, copyVars, workspaceVars,
                       joinVars, queryVars,
                       populateVars, stageVars, fragmentVars, walkVars, pwVars>>

\* get_manifest_for_file called on its own.
GetManifestForFile(file) ==
    LET found == get_manifest_for_file(workspace_json, file)
    IN  /\ lookup' = [file |-> file, status |-> found.status,
                      manifest |-> found.manifest]
        /\ UNCHANGED <<workspace_json, json_before, main_args, effects, main_status>>
        /\ UNCHANGED <<closureVars, transformVars, copyVars, workspaceVars,
                       joinVars, queryVars,
                       populateVars, stageVars, fragmentVars, walkVars, pwVars>>

NextMain ==
    \/ \E targets \in TargetArguments, project_targets \in {<<>>, <<"//b:u">>},
          buildable \in {{}, {"//a:t", "//b:u"}}, aquery \in AqueryOutcomes :
          MainSync(targets, project_targets, buildable, aquery)
    \/ \E targets \in TargetArguments, filepath \in Filepaths,
          index_ok \in BOOLEAN :
          MainFilepath(targets, filepath, index_ok)
    \/ \E file \in LookupFiles : GetManifestForFile(file)

SpecMain == InitMain /\ [][NextMain]_vars

\* The steps the last run of main made.
Steps == {effects[i] : i \in DOMAIN effects}

\* The last run was a full sync that wrote the workspace document.
SyncWrote == "write_workspace" \in Steps

\* The documents a full sync can write.
SyncedDocuments ==
    {json_dump(asdict(populate_workspace(t, BuildTree))) :
        t \in {t \in TargetToOutputs : DistinctTargets(t)}}

\* The links of a table, whatever their ids.
LinksOf(workspace, link_type) ==
    LET type_links == Get(workspace.links, link_type, <<>>)
    IN  {type_links[id] : id \in DOMAIN type_links}

\* Everything the earlier document records is recorded by the later one.
AppendedTo(earlier, later) ==
    LET old == FromJson(json_load(earlier))
        new == FromJson(json_load(later))
    IN  /\ DOMAIN old.files \subseteq DOMAIN new.files
        /\ \A link_type \in DOMAIN old.links :
              LinksOf(old, link_type) \subseteq LinksOf(new, link_type)
        /\ old._last_link_id <= new._last_link_id

\* C12: a full sync that follows a full sync on the same cache directory
\* leaves a document holding every file and link of the earlier document,
\* with an id counter that is not lower.
C12_AsStated ==
    (SyncWrote /\ json_before \in SyncedDocuments)
        => AppendedTo(json_before, workspace_json)

\* The JAVA_MANIFEST link of a file, read off a workspace document.
ManifestIn(document, file) ==
    IF document.kind = "absent" THEN Absent
    ELSE LET files == Get(document.members, "files", JObject(<<>>)).members
             links == Get(document.members, "links", JObject(<<>>)).members
         IN  IF file \notin DOMAIN files THEN Absent
             ELSE IF JAVA_MANIFEST \notin DOMAIN files[file].members THEN Absent
             ELSE IF JAVA_MANIFEST \notin DOMAIN links THEN Absent
             ELSE LET id == files[file].members[JAVA_MANIFEST].value
                      manifests == links[JAVA_MANIFEST].members
                  IN  IF id \in DOMAIN manifests THEN manifests[id].value ELSE Absent

\* A JSON object with no field but the store's.
IsWorkspaceDocument(document) ==
    /\ document.kind = "object"
    /\ DOMAIN document.members \subseteq DOMAIN ScipWorkspace

LookedUp == lookup.status # "idle"

\* C13: on no document or a workspace document the lookup returns the
\* JAVA_MANIFEST link recorded for the file, None when there is none, and no
\* lookup changes the document.
C13_ManifestLookup ==
    /\ [](LookedUp /\ (workspace_json = NoDocument \/ IsWorkspaceDocument(workspace_json))
            => /\ lookup.status = "returned"
               /\ lookup.manifest = ManifestIn(workspace_json, lookup.file))
    /\ [][lookup'.status # "idle" => workspace_json' = workspace_json]_vars

\* A lookup found the manifest a full sync recorded for A.java.
C13_Witness ==
    /\ LookedUp
    /\ IsWorkspaceDocument(workspace_json)
    /\ lookup.file = "A.java"
    /\ lookup.manifest = "a_options"

\* Not valid JSON, or JSON that is not an object of the store's fields.
IsCorruptDocument(document) ==
    document.kind # "absent" /\ ~IsWorkspaceDocument(document)

\* C18: a lookup on an absent or corrupt document returns None and raises
\* nothing.
C18_AsStated ==
    (LookedUp /\ (workspace_json = NoDocument \/ IsCorruptDocument(workspace_json)))
        => lookup.status = "returned" /\ lookup.manifest = Absent

\* The last run of main was given a file path.
FilepathRun == DOMAIN main_args # {} /\ main_args.filepath # Absent

\* The last run of main was given no file path.
SyncRun == DOMAIN main_args # {} /\ main_args.filepath = Absent

C16_FailedQueryGivesEmptyMapping ==
    (SyncRun /\ main_args.aquery_failed /\ "action_graph_query" \in Steps)
        => /\ main_status = "returned"
           /\ effects = FullSyncSteps
           /\ workspace_json = json_dump(asdict(ScipWorkspace))

\* A full sync with a failed action-graph query wrote an empty workspace over
\* the document of an earlier sync.
C16_Witness ==
    /\ SyncRun
    /\ main_args.aquery_failed
    /\ SyncWrote
    /\ json_before \in SyncedDocuments
    /\ json_before # workspace_json

\* The steps of a full sync from the build on.
BuildAndLater == Range(FullSyncSteps) \ {"closure_query"}

\* C22: a run whose target list is empty, or whose closure is empty, stops
\* before the build: no build, no action-graph query, no workspace document
\* written, no copy into the cache and no cleanup of it.
C22_EmptyStopsBeforeBuild ==
    (SyncRun /\ (main_args.synced = <<>> \/ main_args.buildable = {})) =>
        /\ Steps \cap BuildAndLater = {}
        /\ (main_args.synced = <<>> => effects = <<>>)
        /\ workspace_json = json_before
        /\ main_status = "returned"

\* A run with targets and an empty closure that left the document of an
\* earlier sync as it was.
C22_Witness ==
    /\ SyncRun
    /\ main_args.synced # <<>>
    /\ main_args.buildable = {}
    /\ effects = <<"closure_query">>
    /\ json_before \in SyncedDocuments
    /\ json_before # json_dump(asdict(ScipWorkspace))

(***************************************************************************)
(* The closure request with both modes.                                    *)
(***************************************************************************)
BothModes == status # "idle" /\ call.query_deps /\ call.query_rdeps

Failed == {a \in DOMAIN task : task[a] = "failed"}

\* What a finished run leaves of an artifact whose worker did not fail: it
\* was found current or copied, and its files are in the cache.
Served(a) ==
    /\ task[a] \in {"kept", "copied"}
    /\ CachedFilesOf(a) \subseteq DOMAIN cache

\* What a finished run leaves of an artifact whose worker failed: its names
\* are not among the names kept and the cache holds no file under them.
Evicted(a) ==
    /\ CachedFilesOf(a) \cap FilesToKeep(task) = {}
    /\ CachedFilesOf(a) \cap DOMAIN cache = {}

\* C17: a run with workers that fail still finishes; every other artifact is
\* served, and no file stays in the cache under the names of a failed one.
C17_AsStated ==
    RunDone =>
        /\ \A a \in index_to_copy \ Failed : Served(a)
        /\ \A a \in Failed : Evicted(a)

\* The same for artifact sets in which no two paths share a canonical name.
C17_DistinctNames ==
    (RunDone /\ NoNameShared(index_to_copy)) =>
        /\ \A a \in index_to_copy \ Failed : Served(a)
        /\ \A a \in Failed : Evicted(a)

\* A run in which the worker of A3 failed after a copy of A3 was cached, and
\* the worker of A1 did not fail.
C17_DistinctNamesWitness ==
    /\ RunDone
    /\ index_to_copy = {A1, A3}
    /\ Failed = {A3}
    /\ CacheName[A3] \in delete_log

(***************************************************************************)
(* The joiner of the action graph: scip_utils._get_all_outputs.            *)
(*                                                                         *)
(* data is the parsed output of the action-graph query: the flat tables    *)
(* pathFragments, artifacts, actions and targets, each a list of records.  *)
(* The workers of the two thread pools compute values that depend on the   *)
(* tables only, and an exception of a worker is raised again when its      *)
(* result is collected, so the call is a function of data.                 *)
(***************************************************************************)
KeyError == [ok |-> FALSE, path |-> ""]

\* The last of a set of positions: a dictionary built in a loop keeps, for
\* a key listed twice, what the later record gave.
LastOf(positions) == CHOOSE i \in positions : \A j \in positions : j <= i

\* parent_lookup: fragment id -> parentId, for the fragments that have one.
parent_lookup(path_fragments) ==
    [id \in {path_fragments[i].id : i \in
                {j \in DOMAIN path_fragments : "parentId" \in DOMAIN path_fragments[j]}} |->
        path_fragments[LastOf({i \in DOMAIN path_fragments :
            /\ path_fragments[i].id = id
            /\ "parentId" \in DOMAIN path_fragments[i]})].parentId]

\* fragment_labels: fragment id -> label.
fragment_labels(path_fragments) ==
    [id \in {path_fragments[i].id : i \in DOMAIN path_fragments} |->
        path_fragments[LastOf({i \in DOMAIN path_fragments :
            path_fragments[i].id = id})].label]

\* The while loop of process_fragment with "/".join(reversed(path_parts)):
\* the path of current_id under its parents.  fragment_labels[current_id]
\* raises KeyError for an id that has no fragment.
RECURSIVE process_fragment(_, _, _)
process_fragment(current_id, labels, parents) ==
    IF current_id \notin DOMAIN labels THEN KeyError
    ELSE IF current_id \notin DOMAIN parents
         THEN [ok |-> TRUE, path |-> labels[current_id]]
    ELSE LET above == process_fragment(parents[current_id], labels, parents)
         IN  IF ~above.ok THEN KeyError
             ELSE [ok |-> TRUE, path |-> above.path \o "/" \o labels[current_id]]

\* artifact_dict: artifact id -> pathFragmentId.
artifact_dict(artifacts) ==
    [id \in {artifacts[i].id : i \in DOMAIN artifacts} |->
        artifacts[LastOf({i \in DOMAIN artifacts : artifacts[i].id = id})].pathFragmentId]

\* target_output_dict[target_id][mnemonic]: the outputIds of the actions of
\* the target with the mnemonic, in the order of the actions.
RECURSIVE OutputIds(_, _, _)
OutputIds(actions, target_id, mnemonic) ==
    IF actions = <<>> THEN <<>>
    ELSE (IF Head(actions).targetId = target_id /\ Head(actions).mnemonic = mnemonic
          THEN Head(actions).outputIds ELSE <<>>)
         \o OutputIds(Tail(actions), target_id, mnemonic)

ActionMnemonics(actions, target_id) ==
    {actions[i].mnemonic : i \in {j \in DOMAIN actions : actions[j].targetId = target_id}}

\* "[oid for oid in output_ids if oid in artifact_dict]"
valid_output_ids(output_ids, artifact_of) ==
    SelectSeq(output_ids, LAMBDA oid : oid \in DOMAIN artifact_of)

\* "batch_size = max(1, len(targets) // (max_workers * 2))"
batch_size(count, workers) ==
    IF count \div (workers * 2) >= 1 THEN count \div (workers * 2) ELSE 1

\* "[targets[i : i + batch_size] for i in range(0, len(targets), batch_size)]"
target_batches(targets, size) ==
    [b \in 1..((Len(targets) + size - 1) \div size) |->
        SubSeq(targets, (b - 1) * size + 1,
               IF b * size <= Len(targets) THEN b * size ELSE Len(targets))]

\* process_target_batch: "batch_results[target_label] = target_results" for
\* every target of the batch that has results, in the order of the batch;
\* results_of[i] is target_results of the i-th target of the batch.
process_target_batch(target_batch, results_of) ==
    LET with_results == {i \in DOMAIN target_batch : DOMAIN results_of[i] # {}}
        last(label) ==
            CHOOSE i \in with_results :
                /\ target_batch[i].label = label
                /\ \A j \in with_results : target_batch[j].label = label => j <= i
    IN  [label \in {target_batch[i].label : i \in with_results} |->
            results_of[last(label)]]

\* The merge loop over one batch result: the lists of a label's mnemonic are
\* extended by the lists of the batch.
merge_batch(merged, batch_result) ==
    [label \in DOMAIN merged \cup DOMAIN batch_result |->
        LET before == Get(merged, label, <<>>)
            added == Get(batch_result, label, <<>>)
        IN  [mnemonic \in DOMAIN before \cup DOMAIN added |->
                Get(before, mnemonic, <<>>) \o Get(added, mnemonic, <<>>)]]

\* "for batch_result in batch_results", from the b-th batch result on.
RECURSIVE MergeLoop(_, _, _)
MergeLoop(merged, batch_results, b) ==
    IF b > Len(batch_results) THEN merged
    ELSE MergeLoop(merge_batch(merged, batch_results[b]), batch_results, b + 1)

\* __get_all_outputs(json_data), from the parsed data on, with a pool of
\* workers threads: [status, result].
_get_all_outputs(data, workers) ==
    LET labels == fragment_labels(data.pathFragments)
        parents == parent_lookup(data.pathFragments)
        paths == [id \in DOMAIN labels |-> process_fragment(id, labels, parents)]
        path_dict == [id \in DOMAIN labels |-> paths[id].path]
        artifact_of == artifact_dict(data.artifacts)
        valid(t, mnemonic) ==
            valid_output_ids(OutputIds(data.actions, t.id, mnemonic), artifact_of)
        output_paths(t, mnemonic) ==
            [i \in DOMAIN valid(t, mnemonic) |-> path_dict[artifact_of[valid(t, mnemonic)[i]]]]
        target_results(t) ==
            [mnemonic \in {m \in ActionMnemonics(data.actions, t.id) : valid(t, m) # <<>>} |->
                output_paths(t, mnemonic)]
        listed == {data.targets[i] : i \in DOMAIN data.targets}
        batches == target_batches(data.targets,
                                  batch_size(Len(data.targets), workers))
        batch_results ==
            [b \in DOMAIN batches |->
                process_target_batch(batches[b],
                    [i \in DOMAIN batches[b] |-> target_results(batches[b][i])])]
    IN  IF \E id \in DOMAIN labels : ~paths[id].ok
        THEN [status |-> "KeyError", result |-> <<>>]
        ELSE IF \E t \in listed : \E m \in ActionMnemonics(data.actions, t.id) :
                    \E i \in DOMAIN valid(t, m) :
                        artifact_of[valid(t, m)[i]] \notin DOMAIN path_dict
        THEN [status |-> "KeyError", result |-> <<>>]
        ELSE [status |-> "ok", result |-> MergeLoop(<<>>, batch_results, 1)]

\* The tables of an action graph of two targets with one index each, the
\* second target with a manifest as well.
PathFragments ==
    <<[id |-> 1, label |-> "bazel-out"],
      [id |-> 2, label |-> "bin", parentId |-> 1],
      [id |-> 3, label |-> "a.scip", parentId |-> 2],
      [id |-> 4, label |-> "b.scip", parentId |-> 2],
      [id |-> 5, label |-> "b_options", parentId |-> 1]>>

Artifacts ==
    <<[id |-> 1, pathFragmentId |-> 3], [id |-> 2, pathFragmentId |-> 4],
      [id |-> 3, pathFragmentId |-> 5]>>

Actions ==
    <<[targetId |-> 1, mnemonic |-> INDEX_OUTPUT_MNEMONIC, outputIds |-> <<1>>],
      [targetId |-> 2, mnemonic |-> INDEX_OUTPUT_MNEMONIC, outputIds |-> <<2>>],
      [targetId |-> 2, mnemonic |-> JAVA_TARGET_MANIFEST_MNEMONIC, outputIds |-> <<3>>]>>

Targets == <<[id |-> 1, label |-> "//a:t"], [id |-> 2, label |-> "//b:u"]>>

\* The graphs printed with some fragments and artifacts left out.
ActionGraphs ==
    {[pathFragments |-> SelectSeq(PathFragments, LAMBDA f : f.id \in kept_fragments),
      artifacts |-> SelectSeq(Artifacts, LAMBDA a : a.id \in kept_artifacts),
      actions |-> Actions,
      targets |-> Targets] :
        kept_fragments \in SUBSET {1, 2, 3, 4, 5}, kept_artifacts \in SUBSET {1, 2, 3}}

\* A complete graph in which two target records carry the label //a:t, with
\* the records of the targets list in every order.
RepeatedLabelTargets ==
    {[id |-> 1, label |-> "//a:t"], [id |-> 2, label |-> "//a:t"],
     [id |-> 3, label |-> "//b:u"], [id |-> 4, label |-> "//c:v"]}

RepeatedLabelActions ==
    <<[targetId |-> 1, mnemonic |-> INDEX_OUTPUT_MNEMONIC, outputIds |-> <<1>>],
      [targetId |-> 2, mnemonic |-> INDEX_OUTPUT_MNEMONIC, outputIds |-> <<2>>],
      [targetId |-> 3, mnemonic |-> JAVA_TARGET_MANIFEST_MNEMONIC, outputIds |-> <<3>>],
      [targetId |-> 4, mnemonic |-> INDEX_OUTPUT_MNEMONIC, outputIds |-> <<2>>]>>

RepeatedLabelGraphs ==
    {[pathFragments |-> PathFragments, artifacts |-> Artifacts,
      actions |-> RepeatedLabelActions, targets |-> targets] :
        targets \in {l \in [1..4 -> RepeatedLabelTargets] :
                        \A i, j \in 1..4 : l[i] = l[j] => i = j}}

InitJoin ==
    /\ action_graph \in ActionGraphs \cup RepeatedLabelGraphs
    /\ final_results = <<>>
    /\ join_status = "idle"
    /\ max_workers = 0
    /\ ClosureUnused /\ TransformUnused /\ CopyUnused /\ WorkspaceUnused
    /\ MainUnused /\ QueryUnused
    /\ PopulateUnused /\ StageUnused /\ FragmentUnused /\ WalkUnused /\ PwUnused

\* _get_all_outputs with a pool of workers threads.
Join(workers) ==
    /\ join_status = "idle"
    /\ LET r == _get_all_outputs(action_graph, workers)
       IN  /\ final_results' = r.result
           /\ join_status' = r.status
    /\ max_workers' = workers
    /\ UNCHANGED action_graph
    /\ UNCHANGED <<closureVars, transformVars, copyVars, workspaceVars, mainVars,
                   queryVars,
                   populateVars, stageVars, fragmentVars, walkVars, pwVars>>

NextJoin == \E workers \in 1..MaxWorkers : Join(workers)

SpecJoin == InitJoin /\ [][NextJoin]_vars

\* The fragment ids a path needs: the fragment and the fragments above it,
\* as far as the table goes.
RECURSIVE Chain(_, _)
Chain(graph, id) ==
    LET at == {i \in DOMAIN graph.pathFragments : graph.pathFragments[i].id = id}
    IN  IF at = {} THEN {id}
        ELSE LET f == graph.pathFragments[CHOOSE i \in at : TRUE]
             IN  IF "parentId" \in DOMAIN f THEN {id} \cup Chain(graph, f.parentId)
                 ELSE {id}

FragmentIds(graph) == {graph.pathFragments[i].id : i \in DOMAIN graph.pathFragments}
ArtifactIds(graph) == {graph.artifacts[i].id : i \in DOMAIN graph.artifacts}

\* The output id has its artifact, and the artifact every fragment of its
\* path.
Intact(graph, oid) ==
    /\ oid \in ArtifactIds(graph)
    /\ Chain(graph, artifact_dict(graph.artifacts)[oid]) \subseteq FragmentIds(graph)

\* The paths of the complete graph.
PathOfOutput ==
    (1 :> "bazel-out/bin/a.scip") @@ (2 :> "bazel-out/bin/b.scip")
        @@ (3 :> "bazel-out/b_options")

\* The paths a target's mnemonic is due: those of its intact output ids.
DuePaths(graph, target_id, mnemonic) ==
    LET intact == SelectSeq(OutputIds(graph.actions, target_id, mnemonic),
                            LAMBDA oid : Intact(graph, oid))
    IN  [i \in DOMAIN intact |-> PathOfOutput[intact[i]]]

\* The paths the mapping returned holds for a target's mnemonic.
ReturnedPaths(label, mnemonic) ==
    Get(Get(final_results, label, <<>>), mnemonic, <<>>)

Joined == join_status # "idle"

OmitsOnlyTheAffected ==
    /\ join_status = "ok"
    /\ \A i \in DOMAIN action_graph.targets :
          \A mnemonic \in {INDEX_OUTPUT_MNEMONIC, JAVA_TARGET_MANIFEST_MNEMONIC} :
              ReturnedPaths(action_graph.targets[i].label, mnemonic)
                  = DuePaths(action_graph, action_graph.targets[i].id, mnemonic)

\* C15: on a graph that references absent ids the joiner raises nothing and
\* returns, for every target and mnemonic, the paths of the output ids that
\* are intact.
C15_AsStated == Joined => OmitsOnlyTheAffected

\* The same for graphs in which only artifacts are absent: every artifact
\* listed has its fragment and every fragment its parent.
FragmentsComplete(graph) ==
    /\ \A i \in DOMAIN graph.artifacts :
          graph.artifacts[i].pathFragmentId \in FragmentIds(graph)
    /\ \A i \in DOMAIN graph.pathFragments :
          "parentId" \in DOMAIN graph.pathFragments[i]
              => graph.pathFragments[i].parentId \in FragmentIds(graph)

\* No two records of the targets list carry the same label.
UniqueLabels(graph) ==
    \A i, j \in DOMAIN graph.targets :
        graph.targets[i].label = graph.targets[j].label => i = j

C15_MissingArtifactsOnly ==
    (Joined /\ FragmentsComplete(action_graph) /\ UniqueLabels(action_graph))
        => OmitsOnlyTheAffected

C15_MissingArtifactsOnlyWitness ==
    /\ Joined
    /\ FragmentsComplete(action_graph)
    /\ ArtifactIds(action_graph) = {1, 3}
    /\ DOMAIN final_results = {"//a:t", "//b:u"}

(***************************************************************************)
(* The build-tool query: execute_query.execute_query over                  *)
(* utils.stream_output.                                                    *)
(*                                                                         *)
(* The query command is an input: the lines it prints and its exit status. *)
(***************************************************************************)
MaxLines == 2

\* sep.join(items)
RECURSIVE JoinStrings(_, _)
JoinStrings(items, sep) ==
    IF items = <<>> THEN ""
    ELSE IF Len(items) = 1 THEN items[1]
    ELSE items[1] \o sep \o JoinStrings(Tail(items), sep)

\* _query_string: [status, text].  query_depth is <<>> for None, <<d>> for d.
_query_string(targets, query_kinds, query_deps, query_rdeps, query_depth) ==
    IF targets = <<>> \/ (query_deps /\ query_rdeps)
    THEN [status |-> "RuntimeError", text |-> ""]
    ELSE LET union == JoinStrings([i \in DOMAIN targets |-> "\"" \o targets[i] \o "\""], " + ")
             scoped == IF query_rdeps THEN "\"//...\", " \o union ELSE union
             query_fun == IF query_rdeps THEN "rdeps" ELSE "deps"
             wrapped ==
                IF ~(query_deps \/ query_rdeps) THEN union
                ELSE IF query_depth = <<>> THEN query_fun \o "(" \o scoped \o ")"
                ELSE query_fun \o "(" \o scoped \o ", " \o ToString(query_depth[1]) \o ")"
         IN  [status |-> "ok",
              text |-> IF query_kinds = <<>> THEN wrapped
                       ELSE "kind(\"" \o JoinStrings(query_kinds, "|") \o "\", " \o wrapped \o ")"]

\* The lines of streamed_jsonproto output the model knows, as json.loads
\* reads them; on any other text json.loads raises.
JsonRecords ==
    ("{\"type\":\"RULE\",\"rule\":{\"name\":\"//a:t\"}}" :> [type |-> "RULE", name |-> "//a:t"])
    @@ ("{\"type\":\"SOURCE_FILE\"}" :> [type |-> "SOURCE_FILE", name |-> ""])

\* The loop body: "try: outputs.append(json.loads(line)) finally: continue"
\* drops a line json.loads raises on.
AppendRecord(records, line) ==
    IF line \in DOMAIN JsonRecords THEN Append(records, JsonRecords[line])
    ELSE records

\* What the command may print on a line of its standard output.
RawLines ==
    {"{\"type\":\"RULE\",\"rule\":{\"name\":\"//a:t\"}}\n",
     "  {\"type\":\"SOURCE_FILE\"}\n",
     "Loading: 0 packages loaded\n",
     "\n"}

LinesUpTo(n) == UNION {[1..k -> RawLines] : k \in 0..n}

\* The exit statuses of the command: success, a failed query, a query that
\* kept going past errors.
ReturnCodes == {0, 3, 7}

\* The records of the lines, as the loop of execute_query collects them.
RECURSIVE Records(_)
Records(lines) ==
    IF lines = <<>> THEN <<>>
    ELSE AppendRecord(<<>>, Strip(Head(lines))) \o Records(Tail(lines))

InitQuery ==
    /\ query_args = <<>>
    /\ query_file = "none"
    /\ process = <<>>
    /\ outputs = <<>>
    /\ query_return_code = 0
    /\ qpc = "idle"
    /\ ClosureUnused /\ TransformUnused /\ CopyUnused /\ WorkspaceUnused
    /\ MainUnused /\ JoinUnused
    /\ PopulateUnused /\ StageUnused /\ FragmentUnused /\ WalkUnused /\ PwUnused

\* execute_query up to the start of the command: _create_query_file makes the
\* temporary file, then writes the query string into it; _query_string may
\* raise in between.
StartQuery(targets, query_deps, query_rdeps, soft_fail, lines, returncode) ==
    LET query == _query_string(targets, <<"java_library">>, query_deps, query_rdeps, <<1>>)
    IN  /\ qpc = "idle"
        /\ query_args' = [targets |-> targets, query_deps |-> query_deps,
                          query_rdeps |-> query_rdeps, soft_fail |-> soft_fail]
        /\ query_file' = "exists"
        /\ outputs' = <<>>
        /\ query_return_code' = 0
        /\ IF query.status # "ok"
           THEN /\ qpc' = "raised"
                /\ process' = <<>>
           ELSE /\ qpc' = "streaming"
                /\ process' = [query |-> query.text, keep_going |-> soft_fail,
                               printed |-> lines, stdout |-> lines,
                               returncode |-> returncode]
        /\ UNCHANGED <<closureVars, transformVars, copyVars, workspaceVars, mainVars,
                       joinVars,
                       populateVars, stageVars, fragmentVars, walkVars, pwVars>>

\* One turn of the for loop on a tuple (0, None, line.strip()).
ReadLine ==
    /\ qpc = "streaming"
    /\ process.stdout # <<>>
    /\ query_return_code' = 0
    /\ outputs' = AppendRecord(outputs, Strip(Head(process.stdout)))
    /\ process' = [process EXCEPT !.stdout = Tail(@)]
    /\ UNCHANGED <<query_args, query_file, qpc>>
    /\ UNCHANGED <<closureVars, transformVars, copyVars, workspaceVars, mainVars,
                   joinVars,
                   populateVars, stageVars, fragmentVars, walkVars, pwVars>>

\* The end of the stream: for a non-zero exit status a last tuple
\* (returncode, stderr, None), on which json.loads raises; then the finally
\* clause deletes the query file, and the return code decides.
EndOfStream ==
    /\ qpc = "streaming"
    /\ process.stdout = <<>>
    /\ LET last_code == IF process.returncode # 0 THEN process.returncode
                        ELSE query_return_code
       IN  /\ query_return_code' = last_code
           /\ qpc' = IF ~query_args.soft_fail /\ last_code # 0 THEN "raised"
                     ELSE "returned"
    /\ query_file' = "deleted"
    /\ UNCHANGED <<query_args, process, outputs>>
    /\ UNCHANGED <<closureVars, transformVars, copyVars, workspaceVars, mainVars,
                   joinVars,
                   populateVars, stageVars, fragmentVars, walkVars, pwVars>>

NextQuery ==
    \/ \E targets \in {<<>>, <<"//a:t">>, <<"//a:t", "//b/...">>},
          query_deps \in BOOLEAN, query_rdeps \in BOOLEAN, soft_fail \in BOOLEAN,
          lines \in LinesUpTo(MaxLines), returncode \in ReturnCodes :
          StartQuery(targets, query_deps, query_rdeps, soft_fail, lines, returncode)
    \/ ReadLine
    \/ EndOfStream

SpecQuery == InitQuery /\ [][NextQuery]_vars

QueryFinished == qpc \in {"returned", "raised"}

\* The command was started and ended with a non-zero status.
QueryFailed == DOMAIN process # {} /\ process.returncode # 0

\* C19: execute_query raises exactly when the query ended with a non-zero
\* status and soft_fail is off; with soft_fail on it returns the records of
\* the lines printed; and when it finishes the query file is deleted.
C19_AsStated ==
    QueryFinished =>
        /\ qpc = "raised" <=> (QueryFailed /\ ~query_args.soft_fail)
        /\ query_args.soft_fail /\ QueryFailed
              => qpc = "returned" /\ outputs = Records(process.printed)
        /\ query_file = "deleted"

\* The same for the calls whose query command was started.
C19_QueryStarted ==
    (QueryFinished /\ DOMAIN process # {}) =>
        /\ qpc = "raised" <=> (QueryFailed /\ ~query_args.soft_fail)
        /\ query_args.soft_fail /\ QueryFailed
              => qpc = "returned" /\ outputs = Records(process.printed)
        /\ query_file = "deleted"

\* A tolerant call returned the one record printed before the query failed.
C19_QueryStartedWitness ==
    /\ qpc = "returned"
    /\ QueryFailed
    /\ query_args.soft_fail
    /\ Len(outputs) = 1
    /\ Len(process.printed) = MaxLines


(***************************************************************************)
(* add_to_workspace, one manifest of its loop at a time.                   *)
(*                                                                         *)
(* populate_workspace calls add_to_workspace once per target on one store; *)
(* the source lists are the files of BuildTree.                            *)
(***************************************************************************)
MaxCalls == 2   \* add_to_workspace calls on one store

PopTargets == {"//a:t", "//b:u"}

\* What the action-graph query can list under the manifest mnemonic and
\* under the source-list mnemonic of one target.
ManifestOutputs ==
    {<<"a_options">>, <<"a.jar">>, <<"a.jar", "a_options">>,
     <<"a_options", "b_options">>, <<"a_options", "a.jar", "b_options">>}
SourcesOutputs ==
    {<<"a_srcs">>, <<"gone_srcs">>, <<"a_srcs", "b_srcs">>, <<"gone_srcs", "b_srcs">>}

\* target_mnemonics: either mnemonic can be absent from the dictionary.
PopMnemonics ==
    {(JAVA_TARGET_MANIFEST_MNEMONIC :> m) @@ (UNPACKED_JAVA_SOURCES_MNEMONIC :> x) :
        m \in ManifestOutputs, x \in SourcesOutputs}
    \cup {(JAVA_TARGET_MANIFEST_MNEMONIC :> m) : m \in ManifestOutputs}
    \cup {(UNPACKED_JAVA_SOURCES_MNEMONIC :> x) : x \in SourcesOutputs}

InitPopulate ==
    /\ pop_store = ScipWorkspace
    /\ pop_call = NoPopCall
    /\ pop_before = ScipWorkspace
    /\ pop_prev = ScipWorkspace
    /\ pop_calls = 0
    /\ ClosureUnused /\ TransformUnused /\ CopyUnused /\ WorkspaceUnused
    /\ MainUnused /\ JoinUnused /\ QueryUnused
    /\ StageUnused /\ FragmentUnused /\ WalkUnused /\ PwUnused

\* add_to_workspace is entered: the two lists are read off target_mnemonics.
BeginAddToWorkspace(target, target_mnemonics) ==
    /\ pop_call.pc \in {"none", "returned"}
    /\ pop_calls < MaxCalls
    /\ pop_call' =
          [target |-> target, target_mnemonics |-> target_mnemonics,
           manifests |-> options_manifests(
               Get(target_mnemonics, JAVA_TARGET_MANIFEST_MNEMONIC, <<Absent>>)),
           sources_lists |->
               Get(target_mnemonics, UNPACKED_JAVA_SOURCES_MNEMONIC, <<Absent>>),
           index |-> 1, pc |-> "loop"]
    /\ pop_before' = pop_store
    /\ pop_prev' = pop_store
    /\ pop_calls' = pop_calls + 1
    /\ UNCHANGED pop_store
    /\ UNCHANGED <<closureVars, transformVars, copyVars, workspaceVars, mainVars,
                   joinVars, queryVars, stageVars, fragmentVars, walkVars, pwVars>>

\* One iteration of "for index, manifest in enumerate(manifests)".
NextManifest ==
    /\ pop_call.pc = "loop"
    /\ pop_call.index <= Len(pop_call.manifests)
    /\ pop_store' = pair_step(pop_store, pop_call.target, pop_call.manifests,
                              pop_call.sources_lists, BuildTree, pop_call.index)
    /\ pop_prev' = pop_store
    /\ pop_call' = [pop_call EXCEPT !.index = @ + 1]
    /\ UNCHANGED <<pop_before, pop_calls>>
    /\ UNCHANGED <<closureVars, transformVars, copyVars, workspaceVars, mainVars,
                   joinVars, queryVars, stageVars, fragmentVars, walkVars, pwVars>>

\* The loop is exhausted and add_to_workspace returns.
ReturnFromAddToWorkspace ==
    /\ pop_call.pc = "loop"
    /\ pop_call.index > Len(pop_call.manifests)
    /\ pop_call' = [pop_call EXCEPT !.pc = "returned"]
    /\ UNCHANGED <<pop_store, pop_before, pop_prev, pop_calls>>
    /\ UNCHANGED <<closureVars, transformVars, copyVars, workspaceVars, mainVars,
                   joinVars, queryVars, stageVars, fragmentVars, walkVars, pwVars>>

NextPopulate ==
    \/ \E target \in PopTargets, target_mnemonics \in PopMnemonics :
          BeginAddToWorkspace(target, target_mnemonics)
    \/ NextManifest
    \/ ReturnFromAddToWorkspace

SpecPopulate == InitPopulate /\ [][NextPopulate]_vars

\* The files each source list of the build tree names.
ListedFiles ==
    ("a_srcs" :> {"A.java", "B.java"}) @@ ("b_srcs" :> {"B.java", "C.java"})

\* What the call in progress was given under each mnemonic.
GivenManifests ==
    IF JAVA_TARGET_MANIFEST_MNEMONIC \in DOMAIN pop_call.target_mnemonics
    THEN pop_call.target_mnemonics[JAVA_TARGET_MANIFEST_MNEMONIC] ELSE <<>>
GivenSources ==
    IF UNPACKED_JAVA_SOURCES_MNEMONIC \in DOMAIN pop_call.target_mnemonics
    THEN pop_call.target_mnemonics[UNPACKED_JAVA_SOURCES_MNEMONIC] ELSE <<>>

\* The positions of the given manifests that end with "_options".
OptionsPositions ==
    {i \in DOMAIN GivenManifests : EndsWith(GivenManifests[i], "_options")}

\* The k-th given manifest that ends with "_options".
KthOptions(k) ==
    GivenManifests[CHOOSE i \in OptionsPositions :
        Cardinality({j \in OptionsPositions : j <= i}) = k]

\* The k-th source list of the target is given and is a file of the tree.
SourcesOnDisk(k) ==
    k \in DOMAIN GivenSources /\ GivenSources[k] \in DOMAIN ListedFiles

\* The iteration of the loop made last, counted from 1; 0 before the first.
LastPair == pop_call.index - 1

\* The manifest and the target a store records for a file.
ManifestOf(store, file) ==
    store.links[JAVA_MANIFEST][store.files[file][JAVA_MANIFEST]]
TargetOf(store, file) ==
    store.links[BAZEL_TARGET][store.files[file][BAZEL_TARGET]]

\* C23: the k-th manifest ending with "_options" is paired with the k-th
\* source list of the target: right after the k-th iteration every file of
\* that list is recorded under that manifest and the target, when the list
\* is given and on disk; a manifest without the suffix is never recorded and
\* takes no turn in the loop.
C23_PairsByPosition ==
    /\ LastPair >= 1 =>
          /\ LastPair <= Cardinality(OptionsPositions)
          /\ SourcesOnDisk(LastPair) =>
                \A file \in ListedFiles[GivenSources[LastPair]] :
                    /\ file \in DOMAIN pop_store.files
                    /\ ManifestOf(pop_store, file) = KthOptions(LastPair)
                    /\ TargetOf(pop_store, file) = pop_call.target
    /\ pop_call.pc = "returned" => LastPair = Cardinality(OptionsPositions)
    /\ \A link \in LinksOf(pop_store, JAVA_MANIFEST) : EndsWith(link, "_options")

\* With manifests a_options, a.jar, b_options and source lists a_srcs, b_srcs
\* the second iteration has recorded C.java of b_srcs under b_options.
C23_Witness ==
    /\ LastPair = 2
    /\ GivenManifests = <<"a_options", "a.jar", "b_options">>
    /\ GivenSources = <<"a_srcs", "b_srcs">>
    /\ ManifestOf(pop_store, "A.java") = "a_options"
    /\ ManifestOf(pop_store, "C.java") = "b_options"

\* The number a link id is the decimal string of.
IdValue(id) == CHOOSE n \in 0..(2 * MaxCalls * 3 + 1) : ToString(n) = id

\* The iteration made last called add_files_for_target.
PairAdded == LastPair >= 1 /\ SourcesOnDisk(LastPair)

\* C34: a (target, manifest) pair allocates exactly two links, the target
\* link first and the manifest link with the next id, and attaches both to
\* every listed file; so every recorded file has both link types, with the
\* manifest id one above the target id, and a file listed by several pairs
\* carries both ids of the pair processed last.
C34_TwoLinksPerPair ==
    /\ PairAdded =>
          LET target_id == ToString(pop_prev._last_link_id + 1)
              manifest_id == ToString(pop_prev._last_link_id + 2)
          IN  /\ pop_store._last_link_id = pop_prev._last_link_id + 2
              /\ DOMAIN pop_store.links = {BAZEL_TARGET, JAVA_MANIFEST}
              /\ DOMAIN pop_store.links[BAZEL_TARGET]
                    = {target_id} \cup DOMAIN Get(pop_prev.links, BAZEL_TARGET, <<>>)
              /\ DOMAIN pop_store.links[JAVA_MANIFEST]
                    = {manifest_id} \cup DOMAIN Get(pop_prev.links, JAVA_MANIFEST, <<>>)
              /\ pop_store.links[BAZEL_TARGET][target_id] = pop_call.target
              /\ pop_store.links[JAVA_MANIFEST][manifest_id] = KthOptions(LastPair)
              /\ \A file \in ListedFiles[GivenSources[LastPair]] :
                    /\ file \in DOMAIN pop_store.files
                    /\ pop_store.files[file] =
                          (BAZEL_TARGET :> target_id) @@ (JAVA_MANIFEST :> manifest_id)
              /\ \A file \in DOMAIN pop_store.files \ ListedFiles[GivenSources[LastPair]] :
                    /\ file \in DOMAIN pop_prev.files
                    /\ pop_store.files[file] = pop_prev.files[file]
    /\ \A file \in DOMAIN pop_store.files :
          /\ DOMAIN pop_store.files[file] = {BAZEL_TARGET, JAVA_MANIFEST}
          /\ IdValue(pop_store.files[file][JAVA_MANIFEST])
                = IdValue(pop_store.files[file][BAZEL_TARGET]) + 1

\* B.java is listed by a_srcs and by b_srcs: after the second pair it carries
\* the two ids of that pair, and A.java still those of the first.
C34_Witness ==
    /\ LastPair = 2
    /\ GivenSources = <<"a_srcs", "b_srcs">>
    /\ pop_store.files["A.java"] = (BAZEL_TARGET :> "1") @@ (JAVA_MANIFEST :> "2")
    /\ pop_store.files["B.java"] = (BAZEL_TARGET :> "3") @@ (JAVA_MANIFEST :> "4")

\* C24: a source list that is absent, or not on disk, leaves the store as it
\* is: the iteration adds no file, allocates no link and keeps the id
\* counter, and a call none of whose source lists is on disk returns with
\* the store it was given.
C24_MissingSourcesLeaveStore ==
    /\ (LastPair >= 1 /\ ~SourcesOnDisk(LastPair)) =>
          /\ pop_store.files = pop_prev.files
          /\ pop_store.links = pop_prev.links
          /\ pop_store._last_link_id = pop_prev._last_link_id
    /\ (pop_call.pc = "returned"
            /\ \A k \in DOMAIN GivenSources : ~SourcesOnDisk(k)) =>
          pop_store = pop_before

\* A store populated by an earlier call went unchanged through a call whose
\* manifest a_options had the source list gone_srcs, which is not on disk.
C24_Witness ==
    /\ pop_calls = 2
    /\ pop_call.pc = "returned"
    /\ GivenManifests = <<"a_options">>
    /\ GivenSources = <<"gone_srcs">>
    /\ LastPair = 1
    /\ pop_before._last_link_id > 0
    /\ pop_store = pop_before


(***************************************************************************)
(* The full sync of scip_sync.main, call by call, with the child processes *)
(* and the pool threads its calls start.                                   *)
(*                                                                         *)
(* A child process exits, and a pool thread finishes, whenever it does;    *)
(* main goes on when the call that waits for it returns.                   *)
(***************************************************************************)
QueryProcess == <<"bazel query", 1>>
ToolingBuild == <<"bazel build tooling", 1>>
TargetsBuild == <<"bazel build targets", 1>>
AqueryProcess == <<"bazel aquery", 1>>
BuildProcesses == {ToolingBuild, TargetsBuild}
ChildProcesses == {QueryProcess, AqueryProcess} \cup BuildProcesses

\* The threads of the three pools: fragment resolution and target batches
\* in _get_all_outputs, and the pool of copy_index.
PoolThreads(pool, n) == {<<pool, i>> : i \in 1..n}
PoolNames == {"process_fragment", "process_target_batch", "copy_index"}
AllPoolThreads == UNION {PoolThreads(pool, MaxWorkers) : pool \in PoolNames}

\* Mutant: the command is started and not waited for.
check_output_returns_at_once(child, alive) == TRUE

\* utils.output: subprocess.check_output returns when the command has exited.
check_output_returns(child, alive) == child \notin alive

\* utils.stream_output: the generator ends when the command has closed its
\* output and Popen.__exit__ has waited for it.
stream_output_ends(child, alive) == child \notin alive

\* Leaving "with ThreadPoolExecutor(...)" waits for every thread of the pool.
pool_joined(threads, alive) == threads \cap alive = {}

\* Mutant: sync_scip without its except clause: the exception of a failed
\* command leaves sync_scip and ends main.
sync_scip_leaves_raising(command_ok) ==
    IF command_ok THEN "before_aquery" ELSE "raised"

\* Where main is when the try statement of sync_scip is left: "except
\* Exception: pass" swallows the exception of a failed command, so
\* sync_scip returns and main is at its next call either way.
sync_scip_leaves(command_ok) == "before_aquery"

\* "finally: ... stats.index_sync_time_sec = sync_time"
finally_block(stats) == [stats EXCEPT !.index_sync_time_sec = "recorded"]

Begun(stage) == [stage |-> stage, event |-> "begin"]
Returned(stage) == [stage |-> stage, event |-> "return"]

\* The outcomes of the commands of a run and the size of its pools.
StageInputs ==
    [closure_empty : BOOLEAN, tooling_ok : BOOLEAN, build_ok : BOOLEAN,
     aquery_ok : BOOLEAN, workers : 1..MaxWorkers]

InitStages ==
    /\ stage_pc = "idle"
    /\ stage_log = <<>>
    /\ running = {}
    /\ stage_in = <<>>
    /\ sync_stats = NoStats
    /\ ClosureUnused /\ TransformUnused /\ CopyUnused /\ WorkspaceUnused
    /\ MainUnused /\ JoinUnused /\ QueryUnused
    /\ PopulateUnused /\ FragmentUnused /\ WalkUnused /\ PwUnused

OthersUnchanged ==
    UNCHANGED <<closureVars, transformVars, copyVars, workspaceVars, mainVars,
                joinVars, queryVars, populateVars, fragmentVars, walkVars, pwVars>>

\* main calls get_dependency_graph, which starts the query command.
BeginClosure(in) ==
    /\ stage_pc = "idle"
    /\ stage_in' = in
    /\ stage_log' = Append(stage_log, Begun("closure"))
    /\ running' = running \cup {QueryProcess}
    /\ stage_pc' = "closure"
    /\ UNCHANGED sync_stats
    /\ OthersUnchanged

\* get_dependency_graph returns; main returns on an empty closure.
ClosureReturns ==
    /\ stage_pc = "closure"
    /\ stream_output_ends(QueryProcess, running)
    /\ stage_log' = Append(stage_log, Returned("closure"))
    /\ stage_pc' = IF stage_in.closure_empty THEN "returned" ELSE "before_build"
    /\ UNCHANGED <<running, stage_in, sync_stats>>
    /\ OthersUnchanged

\* main calls sync_scip, which starts the build of the tooling.
BeginBuild ==
    /\ stage_pc = "before_build"
    /\ stage_log' = Append(stage_log, Begun("build"))
    /\ running' = running \cup {ToolingBuild}
    /\ sync_stats' = [sync_stats EXCEPT !.commands = Append(@, ToolingBuild)]
    /\ stage_pc' = "build_tooling"
    /\ UNCHANGED stage_in
    /\ OthersUnchanged

\* The first utils.output of sync_scip returns: the build of the targets is
\* started, or the exception of a failed build ends sync_scip.
ToolingBuildReturns ==
    /\ stage_pc = "build_tooling"
    /\ check_output_returns(ToolingBuild, running)
    /\ IF stage_in.tooling_ok
       THEN /\ running' = running \cup {TargetsBuild}
            /\ sync_stats' = [sync_stats EXCEPT !.commands = Append(@, TargetsBuild)]
            /\ stage_pc' = "build_targets"
            /\ UNCHANGED stage_log
       ELSE /\ sync_stats' = finally_block(sync_stats)
            /\ stage_pc' = sync_scip_leaves(FALSE)
            /\ stage_log' = IF sync_scip_leaves(FALSE) = "raised" THEN stage_log
                            ELSE Append(stage_log, Returned("build"))
            /\ UNCHANGED running
    /\ UNCHANGED stage_in
    /\ OthersUnchanged

\* The second utils.output returns or raises; sync_scip returns either way.
TargetsBuildReturns ==
    /\ stage_pc = "build_targets"
    /\ check_output_returns(TargetsBuild, running)
    /\ sync_stats' = finally_block(sync_stats)
    /\ stage_pc' = sync_scip_leaves(stage_in.build_ok)
    /\ stage_log' = IF sync_scip_leaves(stage_in.build_ok) = "raised" THEN stage_log
                    ELSE Append(stage_log, Returned("build"))
    /\ UNCHANGED <<running, stage_in>>
    /\ OthersUnchanged

\* main calls get_mnemonic_output, which starts the action-graph query.
BeginExtraction ==
    /\ stage_pc = "before_aquery"
    /\ stage_log' = Append(stage_log, Begun("action_graph"))
    /\ running' = running \cup {AqueryProcess}
    /\ stage_pc' = "aquery"
    /\ UNCHANGED <<stage_in, sync_stats>>
    /\ OthersUnchanged

\* utils.output of the query returns: _get_all_outputs submits the fragments
\* to its first pool, or the exception of a failed query gives {}.
AqueryReturns ==
    /\ stage_pc = "aquery"
    /\ check_output_returns(AqueryProcess, running)
    /\ IF stage_in.aquery_ok
       THEN /\ running' = running \cup PoolThreads("process_fragment", stage_in.workers)
            /\ stage_pc' = "fragments"
            /\ UNCHANGED stage_log
       ELSE /\ stage_log' = Append(stage_log, Returned("action_graph"))
            /\ stage_pc' = "before_populate"
            /\ UNCHANGED running
    /\ UNCHANGED <<stage_in, sync_stats>>
    /\ OthersUnchanged

\* The first pool is left; the target batches go to the second pool.
FragmentPoolLeft ==
    /\ stage_pc = "fragments"
    /\ pool_joined(PoolThreads("process_fragment", stage_in.workers), running)
    /\ running' = running \cup PoolThreads("process_target_batch", stage_in.workers)
    /\ stage_pc' = "batches"
    /\ UNCHANGED <<stage_log, stage_in, sync_stats>>
    /\ OthersUnchanged

\* The second pool is left and get_mnemonic_output returns the mapping.
BatchPoolLeft ==
    /\ stage_pc = "batches"
    /\ pool_joined(PoolThreads("process_target_batch", stage_in.workers), running)
    /\ stage_log' = Append(stage_log, Returned("action_graph"))
    /\ stage_pc' = "before_populate"
    /\ UNCHANGED <<running, stage_in, sync_stats>>
    /\ OthersUnchanged

\* populate_workspace, which starts no process and no thread.
PopulateWorkspace ==
    /\ stage_pc = "before_populate"
    /\ stage_log' = stage_log \o <<Begun("populate"), Returned("populate")>>
    /\ stage_pc' = "before_write"
    /\ UNCHANGED <<running, stage_in, sync_stats>>
    /\ OthersUnchanged

\* write_workspace, which starts no process and no thread.
WriteWorkspaceFile ==
    /\ stage_pc = "before_write"
    /\ stage_log' = stage_log \o <<Begun("write"), Returned("write")>>
    /\ stage_pc' = "before_copy"
    /\ UNCHANGED <<running, stage_in, sync_stats>>
    /\ OthersUnchanged

\* main calls copy_index, which hands its work to a pool.
BeginCopy ==
    /\ stage_pc = "before_copy"
    /\ stage_log' = Append(stage_log, Begun("copy"))
    /\ running' = running \cup PoolThreads("copy_index", stage_in.workers)
    /\ stage_pc' = "copy"
    /\ UNCHANGED <<stage_in, sync_stats>>
    /\ OthersUnchanged

\* The pool of copy_index is left; copy_index and then main return.
CopyPoolLeft ==
    /\ stage_pc = "copy"
    /\ pool_joined(PoolThreads("copy_index", stage_in.workers), running)
    /\ stage_log' = Append(stage_log, Returned("copy"))
    /\ stage_pc' = "returned"
    /\ UNCHANGED <<running, stage_in, sync_stats>>
    /\ OthersUnchanged

\* A child process exits.
ProcessExits(child) ==
    /\ child \in running
    /\ running' = running \ {child}
    /\ UNCHANGED <<stage_pc, stage_log, stage_in, sync_stats>>
    /\ OthersUnchanged

\* A pool thread has no more work.
ThreadFinishes(thread) ==
    /\ thread \in running
    /\ running' = running \ {thread}
    /\ UNCHANGED <<stage_pc, stage_log, stage_in, sync_stats>>
    /\ OthersUnchanged

NextStages ==
    \/ \E in \in StageInputs : BeginClosure(in)
    \/ ClosureReturns
    \/ BeginBuild
    \/ ToolingBuildReturns
    \/ TargetsBuildReturns
    \/ BeginExtraction
    \/ AqueryReturns
    \/ FragmentPoolLeft
    \/ BatchPoolLeft
    \/ PopulateWorkspace
    \/ WriteWorkspaceFile
    \/ BeginCopy
    \/ CopyPoolLeft
    \/ \E child \in ChildProcesses : ProcessExits(child)
    \/ \E thread \in AllPoolThreads : ThreadFinishes(thread)

SpecStages == InitStages /\ [][NextStages]_vars

\* The calls of a full sync, in their order.
StageOrder == <<"closure", "build", "action_graph", "populate", "write", "copy">>

\* Every stage begun and returned once, one after the other.
OrderedLog ==
    [i \in 1..(2 * Len(StageOrder)) |->
        IF i % 2 = 1 THEN Begun(StageOrder[(i + 1) \div 2])
        ELSE Returned(StageOrder[i \div 2])]

\* The stage that has begun and not returned, if any.
OpenStage ==
    IF stage_log # <<>> /\ stage_log[Len(stage_log)].event = "begin"
    THEN stage_log[Len(stage_log)].stage ELSE Absent

\* The stage whose call starts a process or a thread.
StageOf(child) ==
    IF child = QueryProcess THEN "closure"
    ELSE IF child \in BuildProcesses THEN "build"
    ELSE IF child[1] = "copy_index" THEN "copy"
    ELSE "action_graph"

\* C21: in a full sync the stages begin and return one after the other in
\* the order closure, build, action graph, populate, write, copy; a run with
\* a non-empty closure that returns has made each of them once; whatever a
\* stage started is gone when the stage returns, so no build process is
\* alive while a thread of a pool is.
C21_StagesInOrder ==
    /\ Len(stage_log) <= Len(OrderedLog)
    /\ stage_log = SubSeq(OrderedLog, 1, Len(stage_log))
    /\ (stage_pc = "returned" /\ ~stage_in.closure_empty) => stage_log = OrderedLog
    /\ \A child \in running : StageOf(child) = OpenStage
    /\ ~(\E build \in BuildProcesses, thread \in AllPoolThreads :
            {build, thread} \subseteq running)

\* A run whose build of the targets failed has copied with two threads,
\* every earlier stage begun and returned once.
C21_Witness ==
    /\ stage_pc = "copy"
    /\ stage_in.tooling_ok /\ ~stage_in.build_ok /\ stage_in.aquery_ok
    /\ running = PoolThreads("copy_index", 2)
    /\ stage_log = SubSeq(OrderedLog, 1, 11)

\* A build of the run has failed.
BuildFailed == ~stage_in.tooling_ok \/ ~stage_in.build_ok

\* C36: a failing build never raises out of sync_scip: the sync time is
\* recorded whenever sync_scip is left, main goes on to the action-graph
\* query, the workspace write and the copy, and after a failed build of the
\* tooling the build of the targets is never started.
C36_FailedBuildSwallowed ==
    /\ stage_pc # "raised"
    /\ Returned("build") \in Range(stage_log)
          => sync_stats.index_sync_time_sec = "recorded"
    /\ (Begun("build") \in Range(stage_log) /\ ~stage_in.tooling_ok) =>
          /\ sync_stats.commands = <<ToolingBuild>>
          /\ TargetsBuild \notin running
    /\ (stage_pc = "returned" /\ ~stage_in.closure_empty /\ BuildFailed) =>
          /\ {Returned("action_graph"), Returned("write"), Returned("copy")}
                \subseteq Range(stage_log)
          /\ stage_log = OrderedLog

\* A run whose build of the tooling failed has returned after the copy.
C36_Witness ==
    /\ stage_pc = "returned"
    /\ ~stage_in.closure_empty /\ ~stage_in.tooling_ok
    /\ sync_stats = [index_sync_time_sec |-> "recorded", commands |-> <<ToolingBuild>>]
    /\ Returned("copy") \in Range(stage_log)


(***************************************************************************)
(* The merge of the target batches of _get_all_outputs.                    *)
(***************************************************************************)

\* The paths of the outputs of every record of the targets list that
\* carries the label, for one mnemonic.
PathsOfLabel(graph, label, mnemonic) ==
    UNION {Range(DuePaths(graph, graph.targets[i].id, mnemonic)) :
              i \in {j \in DOMAIN graph.targets : graph.targets[j].label = label}}

\* C29: the mapping returned does not depend on the size of the pool, which
\* sets the batches, and the list of a label's mnemonic holds the paths of
\* every record of the targets list that carries the label.
C29_AsStated ==
    join_status = "ok" =>
        /\ \A workers \in 1..MaxWorkers :
              _get_all_outputs(action_graph, workers).result = final_results
        /\ \A i \in DOMAIN action_graph.targets :
              \A mnemonic \in {INDEX_OUTPUT_MNEMONIC, JAVA_TARGET_MANIFEST_MNEMONIC} :
                  PathsOfLabel(action_graph, action_graph.targets[i].label, mnemonic)
                      \subseteq Range(ReturnedPaths(action_graph.targets[i].label, mnemonic))

\* The same for the graphs in which no two target records share a label.
C29_UniqueLabels ==
    (join_status = "ok" /\ UniqueLabels(action_graph)) =>
        /\ \A workers \in 1..MaxWorkers :
              _get_all_outputs(action_graph, workers).result = final_results
        /\ \A i \in DOMAIN action_graph.targets :
              \A mnemonic \in {INDEX_OUTPUT_MNEMONIC, JAVA_TARGET_MANIFEST_MNEMONIC} :
                  PathsOfLabel(action_graph, action_graph.targets[i].label, mnemonic)
                      \subseteq Range(ReturnedPaths(action_graph.targets[i].label, mnemonic))

\* Two records with the label //a:t in two batches: both paths are returned.
C29_TwoBatchesWitness ==
    /\ join_status = "ok"
    /\ action_graph \in RepeatedLabelGraphs
    /\ max_workers = 1
    /\ Range(ReturnedPaths("//a:t", INDEX_OUTPUT_MNEMONIC))
          = {"bazel-out/bin/a.scip", "bazel-out/bin/b.scip"}


(***************************************************************************)
(* The fragment resolution of _get_all_outputs, thread by thread.          *)
(*                                                                         *)
(* Every fragment is submitted to the pool before the first result is      *)
(* collected.  A pool of n threads runs at most n tasks at a time and      *)
(* starts them in the order of submission; a task tests the shared table   *)
(* and computes its path; the calling thread takes the finished futures in *)
(* the order they finish and is the only writer of the table.              *)
(***************************************************************************)

\* A table in which the id 2 is listed twice, the second time as "lib".
RepeatedIdFragments ==
    <<[id |-> 1, label |-> "bazel-out"],
      [id |-> 2, label |-> "bin", parentId |-> 1],
      [id |-> 2, label |-> "lib", parentId |-> 1],
      [id |-> 3, label |-> "a.scip", parentId |-> 2]>>

\* A table printed without the fragment 2, the parent of 3 and 4.
DanglingParentFragments == SelectSeq(PathFragments, LAMBDA f : f.id # 2)

FragmentTables ==
    {SubSeq(PathFragments, 1, 4), RepeatedIdFragments, DanglingParentFragments}

NoResult == [kind |-> "None"]
Raised == [kind |-> "KeyError"]
Resolved(fragment_id, full_path) ==
    [kind |-> "pair", fragment_id |-> fragment_id, full_path |-> full_path]

\* The task process_fragment(fragment) run against the shared table: None
\* for an id the table holds, else the id with its path, or KeyError.
fragment_task(fragment, table, labels, parents) ==
    IF fragment.id \in DOMAIN table THEN NoResult
    ELSE LET walked == process_fragment(fragment.id, labels, parents)
         IN  IF walked.ok THEN Resolved(fragment.id, walked.path) ELSE Raised

Queued == [state |-> "queued"]
Started == [state |-> "running"]
Done(outcome) == [state |-> "done", outcome |-> outcome]
Collected(outcome) == [state |-> "collected", outcome |-> outcome]

FutureIn(state) == {i \in DOMAIN futures : futures[i].state = state}

InitFragments ==
    /\ frag_call \in [path_fragments : FragmentTables, max_workers : 1..MaxWorkers]
    /\ path_table = <<>>
    /\ futures = [i \in DOMAIN frag_call.path_fragments |-> Queued]
    /\ frag_status = "collecting"
    /\ ClosureUnused /\ TransformUnused /\ CopyUnused /\ WorkspaceUnused
    /\ MainUnused /\ JoinUnused /\ QueryUnused
    /\ PopulateUnused /\ StageUnused /\ WalkUnused /\ PwUnused

FragmentOthersUnchanged ==
    UNCHANGED <<closureVars, transformVars, copyVars, workspaceVars, mainVars,
                joinVars, queryVars, populateVars, stageVars, walkVars, pwVars>>

\* A free thread of the pool takes the next task of the queue.
StartTask(i) ==
    /\ i \in FutureIn("queued")
    /\ \A j \in FutureIn("queued") : i <= j
    /\ Cardinality(FutureIn("running")) < frag_call.max_workers
    /\ futures' = [futures EXCEPT ![i] = Started]
    /\ UNCHANGED <<frag_call, path_table, frag_status>>
    /\ FragmentOthersUnchanged

\* The task of a running thread reads the table and finishes.
RunTask(i) ==
    /\ i \in FutureIn("running")
    /\ futures' = [futures EXCEPT ![i] =
          Done(fragment_task(frag_call.path_fragments[i], path_table,
                             fragment_labels(frag_call.path_fragments),
                             parent_lookup(frag_call.path_fragments)))]
    /\ UNCHANGED <<frag_call, path_table, frag_status>>
    /\ FragmentOthersUnchanged

\* One turn of "for future in as_completed(...)": future.result() raises
\* what the task raised, and a result that is not None is written.
CollectResult(i) ==
    /\ frag_status = "collecting"
    /\ i \in FutureIn("done")
    /\ LET outcome == futures[i].outcome
       IN  /\ futures' = [futures EXCEPT ![i] = Collected(outcome)]
           /\ path_table' =
                 IF outcome.kind = "pair"
                 THEN (outcome.fragment_id :> outcome.full_path) @@ path_table
                 ELSE path_table
           /\ frag_status' = IF outcome.kind = "KeyError" THEN "KeyError"
                             ELSE frag_status
    /\ UNCHANGED frag_call
    /\ FragmentOthersUnchanged

\* Every future has been taken: the loop ends and the pool is left.
CollectionEnds ==
    /\ frag_status = "collecting"
    /\ FutureIn("collected") = DOMAIN futures
    /\ frag_status' = "ok"
    /\ UNCHANGED <<frag_call, path_table, futures>>
    /\ FragmentOthersUnchanged

NextFragments ==
    \/ \E i \in 1..Len(PathFragments) : StartTask(i)
    \/ \E i \in 1..Len(PathFragments) : RunTask(i)
    \/ \E i \in 1..Len(PathFragments) : CollectResult(i)
    \/ CollectionEnds

SpecFragments == InitFragments /\ [][NextFragments]_vars

\* The ids of the table, and the path one thread resolving the fragments in
\* the order of the table gives each id.
SubmittedIds ==
    {frag_call.path_fragments[i].id : i \in DOMAIN frag_call.path_fragments}
SequentialPath(fragment_id) ==
    process_fragment(fragment_id, fragment_labels(frag_call.path_fragments),
                     parent_lookup(frag_call.path_fragments)).path

\* Every parentId of the table names a fragment of the table.
ParentsListed ==
    \A i \in DOMAIN frag_call.path_fragments :
        "parentId" \in DOMAIN frag_call.path_fragments[i]
            => frag_call.path_fragments[i].parentId \in SubmittedIds

\* At every moment the entries of the table and the results of the tasks
\* are the sequential paths.
SequentialEntries ==
    /\ DOMAIN path_table \subseteq SubmittedIds
    /\ \A id \in DOMAIN path_table : path_table[id] = SequentialPath(id)
    /\ \A i \in FutureIn("done") \cup FutureIn("collected") :
          futures[i].outcome.kind = "pair" =>
              futures[i].outcome.full_path = SequentialPath(futures[i].outcome.fragment_id)

\* C30: under every interleaving of the tasks and the collecting thread the
\* table never holds an entry that differs from the sequential path, two
\* tasks of one id give the same path, and the collection never ends with an
\* id of the table missing.
C30_AsStated ==
    /\ SequentialEntries
    /\ frag_status # "collecting" => DOMAIN path_table = SubmittedIds

\* The same for the tables in which every parentId names a fragment.
C30_ParentsListed ==
    ParentsListed =>
        /\ SequentialEntries
        /\ frag_status # "collecting" => DOMAIN path_table = SubmittedIds
        /\ frag_status # "KeyError"

\* Both tasks of the id 2 ran before either result was written, both gave
\* the path of the label listed last, and the collection ended with one
\* entry per id.
C30_ParentsListedWitness ==
    /\ frag_status = "ok"
    /\ frag_call.path_fragments = RepeatedIdFragments
    /\ futures[2].outcome = Resolved(2, "bazel-out/lib")
    /\ futures[3].outcome = Resolved(2, "bazel-out/lib")
    /\ DOMAIN path_table = {1, 2, 3}
    /\ path_table[3] = "bazel-out/lib/a.scip"

(***************************************************************************)
(* The mapping _get_all_outputs returns on a well-formed action graph.     *)
(***************************************************************************)

\* Every id the graph refers to is listed: each output id has its artifact,
\* each artifact its fragment, each fragment its parent.  (The parent chains
\* of the graphs of InitJoin are acyclic.)
WellFormed(graph) ==
    /\ FragmentsComplete(graph)
    /\ \A i \in DOMAIN graph.actions :
          Range(graph.actions[i].outputIds) \subseteq ArtifactIds(graph)

\* The full paths of the outputs of the actions of the label's targets with
\* the mnemonic: target records from the i-th on in the order of the targets
\* list, the actions of one target in action order.
RECURSIVE PathsInOrder(_, _, _, _)
PathsInOrder(graph, label, mnemonic, i) ==
    IF i > Len(graph.targets) THEN <<>>
    ELSE (IF graph.targets[i].label = label
          THEN DuePaths(graph, graph.targets[i].id, mnemonic) ELSE <<>>)
         \o PathsInOrder(graph, label, mnemonic, i + 1)

TargetLabels(graph) == {graph.targets[i].label : i \in DOMAIN graph.targets}

JoinMnemonics == {INDEX_OUTPUT_MNEMONIC, JAVA_TARGET_MANIFEST_MNEMONIC}

\* The mapping holds, for every label and mnemonic, the paths in order, and
\* no label and no mnemonic without a path.
MapsEveryLabel ==
    /\ join_status = "ok"
    /\ DOMAIN final_results =
          {label \in TargetLabels(action_graph) :
              \E mnemonic \in JoinMnemonics :
                  PathsInOrder(action_graph, label, mnemonic, 1) # <<>>}
    /\ \A label \in DOMAIN final_results :
          /\ DOMAIN final_results[label] =
                {mnemonic \in JoinMnemonics :
                    PathsInOrder(action_graph, label, mnemonic, 1) # <<>>}
          /\ \A mnemonic \in DOMAIN final_results[label] :
                final_results[label][mnemonic]
                    = PathsInOrder(action_graph, label, mnemonic, 1)

\* C31: on a well-formed action graph _get_all_outputs maps every target
\* label, per mnemonic, to the full paths of the outputs of the label's
\* actions in order, and lists no label and no mnemonic without a path.
C31_AsStated == (Joined /\ WellFormed(action_graph)) => MapsEveryLabel

\* The same for the well-formed graphs in which no two target records share
\* a label.
C31_UniqueLabels ==
    (Joined /\ WellFormed(action_graph) /\ UniqueLabels(action_graph))
        => MapsEveryLabel

C31_UniqueLabelsWitness ==
    /\ Joined
    /\ WellFormed(action_graph)
    /\ UniqueLabels(action_graph)
    /\ final_results["//b:u"][JAVA_TARGET_MANIFEST_MNEMONIC] = <<"bazel-out/b_options">>

(***************************************************************************)
(* process_fragment of _get_all_outputs, one turn of its while loop at a   *)
(* time.                                                                   *)
(*                                                                         *)
(* Every fragment is a task of the pool; a task walks the parentId links   *)
(* upwards and appends a label to path_parts in every turn.  The calling   *)
(* thread collects the finished tasks and leaves the pool, which waits for *)
(* every task, before the tables of the artifacts and targets are merged.  *)
(* None and 0 are both false in "while current_id:" and "if parent_id:";   *)
(* None is written 0.                                                      *)
(***************************************************************************)
None == 0

\* The labels path_parts can hold before the list can no longer grow.
MaxParts == 4

\* A chain of three fragments.
ChainFragments == SubSeq(PathFragments, 1, 3)

\* A fragment that is its own parent, and a fragment below it.
SelfParentFragments ==
    <<[id |-> 1, label |-> "bazel-out", parentId |-> 1],
      [id |-> 2, label |-> "bin", parentId |-> 1]>>

\* Two fragments that are each other's parent, and a root of its own.
CyclicFragments ==
    <<[id |-> 1, label |-> "bazel-out", parentId |-> 2],
      [id |-> 2, label |-> "bin", parentId |-> 1],
      [id |-> 3, label |-> "external"]>>

\* A fragment whose parent is not listed.
OrphanFragments ==
    <<[id |-> 1, label |-> "bazel-out"],
      [id |-> 3, label |-> "a.scip", parentId |-> 2]>>

WalkTables == {ChainFragments, SelfParentFragments, CyclicFragments, OrphanFragments}

MemoryError == [kind |-> "MemoryError"]

\* "/".join(reversed(path_parts))
RECURSIVE join_reversed(_)
join_reversed(path_parts) ==
    IF path_parts = <<>> THEN ""
    ELSE IF Len(path_parts) = 1 THEN path_parts[1]
    ELSE join_reversed(Tail(path_parts)) \o "/" \o Head(path_parts)

WalkQueued == [state |-> "queued", current_id |-> None, path_parts |-> <<>>,
               outcome |-> NoResult]

WalkIn(state) == {i \in DOMAIN walks : walks[i].state = state}

InitWalk ==
    /\ walk_call \in [path_fragments : WalkTables, max_workers : 1..MaxWorkers]
    /\ walks = [i \in DOMAIN walk_call.path_fragments |-> WalkQueued]
    /\ walk_paths = <<>>
    /\ walk_status = "collecting"
    /\ ClosureUnused /\ TransformUnused /\ CopyUnused /\ WorkspaceUnused
    /\ MainUnused /\ JoinUnused /\ QueryUnused
    /\ PopulateUnused /\ StageUnused /\ FragmentUnused /\ PwUnused

WalkOthersUnchanged ==
    UNCHANGED <<closureVars, transformVars, copyVars, workspaceVars, mainVars,
                joinVars, queryVars, populateVars, stageVars, fragmentVars, pwVars>>

\* A free thread of the pool takes the next task: "if fragment_id in
\* path_dict: return None", else "current_id = fragment_id".
WalkBegins(i) ==
    /\ walk_status # "killed"
    /\ i \in WalkIn("queued")
    /\ \A j \in WalkIn("queued") : i <= j
    /\ Cardinality(WalkIn("running")) < walk_call.max_workers
    /\ LET fragment_id == walk_call.path_fragments[i].id
       IN  walks' = [walks EXCEPT ![i] =
              IF fragment_id \in DOMAIN walk_paths
              THEN [WalkQueued EXCEPT !.state = "done"]
              ELSE [WalkQueued EXCEPT !.state = "running",
                                      !.current_id = fragment_id]]
    /\ UNCHANGED <<walk_call, walk_paths, walk_status>>
    /\ WalkOthersUnchanged

\* One turn of "while current_id:": the label is appended and the walk
\* moves to the parent; fragment_labels[current_id] raises KeyError for an
\* id that is not listed.
WalkTurn(i) ==
    /\ walk_status # "killed"
    /\ i \in WalkIn("running")
    /\ walks[i].current_id # None
    /\ Len(walks[i].path_parts) < MaxParts
    /\ LET labels == fragment_labels(walk_call.path_fragments)
           parents == parent_lookup(walk_call.path_fragments)
           current_id == walks[i].current_id
       IN  walks' = [walks EXCEPT ![i] =
              IF current_id \notin DOMAIN labels
              THEN [@ EXCEPT !.state = "done", !.outcome = Raised]
              ELSE [@ EXCEPT !.path_parts = Append(@, labels[current_id]),
                             !.current_id = Get(parents, current_id, None)]]
    /\ UNCHANGED <<walk_call, walk_paths, walk_status>>
    /\ WalkOthersUnchanged

\* The loop ends at a fragment without a parent: the task returns the id
\* with the path.
WalkReturns(i) ==
    /\ walk_status # "killed"
    /\ i \in WalkIn("running")
    /\ walks[i].current_id = None
    /\ walks' = [walks EXCEPT ![i] =
          [@ EXCEPT !.state = "done",
                    !.outcome = Resolved(walk_call.path_fragments[i].id,
                                         join_reversed(walks[i].path_parts))]]
    /\ UNCHANGED <<walk_call, walk_paths, walk_status>>
    /\ WalkOthersUnchanged

\* path_parts cannot grow any more: the append raises MemoryError,
WalkMemoryError(i) ==
    /\ walk_status # "killed"
    /\ i \in WalkIn("running")
    /\ walks[i].current_id # None
    /\ Len(walks[i].path_parts) = MaxParts
    /\ walks' = [walks EXCEPT ![i] = [@ EXCEPT !.state = "done",
                                               !.outcome = MemoryError]]
    /\ UNCHANGED <<walk_call, walk_paths, walk_status>>
    /\ WalkOthersUnchanged

\* or the system ends the process.
WalkKilled(i) ==
    /\ walk_status # "killed"
    /\ i \in WalkIn("running")
    /\ walks[i].current_id # None
    /\ Len(walks[i].path_parts) = MaxParts
    /\ walk_status' = "killed"
    /\ UNCHANGED <<walk_call, walks, walk_paths>>
    /\ WalkOthersUnchanged

\* One turn of "for future in as_completed(...)": future.result() raises
\* what the task raised, and a result that is not None is written.
WalkCollect(i) ==
    /\ walk_status = "collecting"
    /\ i \in WalkIn("done")
    /\ LET outcome == walks[i].outcome
       IN  /\ walks' = [walks EXCEPT ![i] = [@ EXCEPT !.state = "collected"]]
           /\ walk_paths' =
                 IF outcome.kind = "pair"
                 THEN (outcome.fragment_id :> outcome.full_path) @@ walk_paths
                 ELSE walk_paths
           /\ walk_status' = IF outcome.kind \in {"KeyError", "MemoryError"}
                             THEN outcome.kind ELSE walk_status
    /\ UNCHANGED walk_call
    /\ WalkOthersUnchanged

\* Every future has been taken and every task has ended: the with block is
\* left and the merge of the artifact and target tables begins.
WalkPoolLeft ==
    /\ walk_status = "collecting"
    /\ WalkIn("collected") = DOMAIN walks
    /\ walk_status' = "merging"
    /\ UNCHANGED <<walk_call, walks, walk_paths>>
    /\ WalkOthersUnchanged

MaxFragments == 3

NextWalk ==
    \/ \E i \in 1..MaxFragments : WalkBegins(i)
    \/ \E i \in 1..MaxFragments : WalkTurn(i)
    \/ \E i \in 1..MaxFragments : WalkReturns(i)
    \/ \E i \in 1..MaxFragments : WalkMemoryError(i)
    \/ \E i \in 1..MaxFragments : WalkKilled(i)
    \/ \E i \in 1..MaxFragments : WalkCollect(i)
    \/ WalkPoolLeft

SpecWalk == InitWalk /\ [][NextWalk]_vars

\* The threads of the pool and the calling thread all get to run.
SpecWalkFair == SpecWalk /\ WF_vars(NextWalk)

\* Every parentId of the table names a fragment of the table.
WalkParentsListed ==
    \A i \in DOMAIN walk_call.path_fragments :
        "parentId" \in DOMAIN walk_call.path_fragments[i]
            => \E j \in DOMAIN walk_call.path_fragments :
                  walk_call.path_fragments[j].id = walk_call.path_fragments[i].parentId

\* No fragment of the table is above itself.
RECURSIVE Above(_, _, _)
Above(table, id, n) ==
    IF n = 0 THEN {}
    ELSE LET up == {table[i].parentId :
                       i \in {j \in DOMAIN table :
                                 table[j].id = id /\ "parentId" \in DOMAIN table[j]}}
         IN  up \cup UNION {Above(table, p, n - 1) : p \in up}

WalkAcyclic ==
    \A i \in DOMAIN walk_call.path_fragments :
        walk_call.path_fragments[i].id
            \notin Above(walk_call.path_fragments, walk_call.path_fragments[i].id,
                         Len(walk_call.path_fragments))

\* C32: on every table in which each parentId names a fragment, with or
\* without a cycle of parentId links, every walk ends and the stage reaches
\* its merge step.
C32_CyclesTerminate == WalkParentsListed => <>(walk_status = "merging")

\* The same for the tables without a cycle.
C32_AcyclicTerminates ==
    (WalkParentsListed /\ WalkAcyclic) => <>(walk_status = "merging")

\* A walk on a cycle has filled path_parts and has not come to a root.
C32_CycleWitness ==
    /\ ~WalkAcyclic
    /\ \E i \in WalkIn("running") :
          /\ Len(walks[i].path_parts) = MaxParts
          /\ walks[i].current_id # None

(***************************************************************************)
(* populate_workspace, one target of its loop at a time.                   *)
(*                                                                         *)
(* main calls populate_workspace once per full sync; every call builds its *)
(* store with create_workspace and walks target_to_output in the order of  *)
(* the dictionary.  The source lists are the files of BuildTree.           *)
(***************************************************************************)
MaxTargets == 3       \* a target_to_output mapping has at most this many keys
MaxPopulations == 2   \* populate_workspace calls of one process

\* The entries a mapping is drawn from: two targets of the repository, one
\* whose package name only starts like the third-party directory, and one
\* target under each skipped prefix.
LoopOutputs ==
    <<<<"//a:t", MnemonicsOf("a.scip", <<"a.jar", "a_options">>, "a_srcs")>>,
      <<"//b:u", MnemonicsOf("b.scip", <<"b_options">>, "b_srcs")>>,
      <<"//3rdparty_tools:w", MnemonicsOf("w.scip", <<"w_options">>, "b_srcs")>>,
      <<"//3rdparty/x:y", MnemonicsOf("y.scip", <<"y_options">>, "a_srcs")>>,
      <<"bazel-out/bin/gen:z", MnemonicsOf("z.scip", <<"z_options">>, "b_srcs")>>>>

\* A dictionary has each key once; its items come in insertion order.
LoopMappings ==
    {[i \in 1..Len(order) |-> LoopOutputs[order[i]]] :
        order \in {o \in UNION {[1..n -> DOMAIN LoopOutputs] : n \in 0..MaxTargets} :
                      \A i, j \in DOMAIN o : o[i] = o[j] => i = j}}

InitPopulateWorkspace ==
    /\ pw_store = ScipWorkspace
    /\ pw_call = NoPwCall
    /\ pw_handed = <<>>
    /\ pw_before = ScipWorkspace
    /\ pw_runs = 0
    /\ ClosureUnused /\ TransformUnused /\ CopyUnused /\ WorkspaceUnused
    /\ MainUnused /\ JoinUnused /\ QueryUnused
    /\ PopulateUnused /\ StageUnused /\ FragmentUnused /\ WalkUnused

PwOthersUnchanged ==
    UNCHANGED <<closureVars, transformVars, copyVars, workspaceVars, mainVars,
                joinVars, queryVars, populateVars, stageVars, fragmentVars,
                walkVars>>

\* populate_workspace is entered: "workspace = create_workspace(cwd)".
PopulateWorkspaceBegins(target_to_output) ==
    /\ pw_call.pc \in {"none", "returned"}
    /\ pw_runs < MaxPopulations
    /\ pw_store' = create_workspace
    /\ pw_call' = [target_to_output |-> target_to_output, index |-> 1, pc |-> "loop"]
    /\ pw_handed' = <<>>
    /\ pw_before' = pw_store
    /\ pw_runs' = pw_runs + 1
    /\ PwOthersUnchanged

\* One iteration of "for target, target_mnemonics in target_to_output.items()".
PopulateWorkspaceStep ==
    /\ pw_call.pc = "loop"
    /\ pw_call.index <= Len(pw_call.target_to_output)
    /\ LET target == pw_call.target_to_output[pw_call.index][1]
           target_mnemonics == pw_call.target_to_output[pw_call.index][2]
       IN  IF skip_target(target)
           THEN UNCHANGED <<pw_store, pw_handed>>
           ELSE /\ pw_store' = add_to_workspace(pw_store, target, target_mnemonics,
                                                BuildTree)
                /\ pw_handed' = Append(pw_handed, target)
    /\ pw_before' = pw_store
    /\ pw_call' = [pw_call EXCEPT !.index = @ + 1]
    /\ UNCHANGED pw_runs
    /\ PwOthersUnchanged

\* The loop is exhausted: "return workspace".
PopulateWorkspaceReturns ==
    /\ pw_call.pc = "loop"
    /\ pw_call.index > Len(pw_call.target_to_output)
    /\ pw_call' = [pw_call EXCEPT !.pc = "returned"]
    /\ UNCHANGED <<pw_store, pw_handed, pw_before, pw_runs>>
    /\ PwOthersUnchanged

NextPopulateWorkspace ==
    \/ \E target_to_output \in LoopMappings : PopulateWorkspaceBegins(target_to_output)
    \/ PopulateWorkspaceStep
    \/ PopulateWorkspaceReturns

SpecPopulateWorkspace == InitPopulateWorkspace /\ [][NextPopulateWorkspace]_vars

\* The prefixes the claim names, and the targets under one of them.
ThirdPartyPrefixes == {"//3rdparty/", "bazel-out"}
UnderThirdParty(target) == \E prefix \in ThirdPartyPrefixes : StartsWith(target, prefix)

\* The targets of the first n entries of the mapping, in order, and those of
\* them that lie under no third-party prefix.
TargetsUpTo(n) == [i \in 1..n |-> pw_call.target_to_output[i][1]]
OwnTargetsUpTo(n) == SelectSeq(TargetsUpTo(n), LAMBDA t : ~UnderThirdParty(t))

\* The iteration of the populate_workspace loop made last; 0 before the first.
LastTarget == pw_call.index - 1

\* C40: every populate_workspace call starts from an empty store; an
\* iteration on a target under //3rdparty/ or bazel-out leaves the store as
\* it was (no file, no link, no id consumed) and makes no add_to_workspace
\* call; the targets handed to add_to_workspace are the other targets of the
\* mapping, each once and in order; no target link of the store names a
\* third-party target.
C40_ThirdPartySkipped ==
    /\ (pw_call.pc = "loop" /\ LastTarget = 0) => pw_store = ScipWorkspace
    /\ pw_call.pc # "none" =>
          /\ pw_handed = OwnTargetsUpTo(LastTarget)
          /\ (LastTarget >= 1 /\ UnderThirdParty(TargetsUpTo(LastTarget)[LastTarget])) =>
                pw_store = pw_before
          /\ \A target \in LinksOf(pw_store, BAZEL_TARGET) : ~UnderThirdParty(target)
    /\ pw_call.pc = "returned" =>
          /\ pw_handed = OwnTargetsUpTo(Len(pw_call.target_to_output))
          /\ \A i, j \in DOMAIN pw_handed : pw_handed[i] = pw_handed[j] => i = j

\* A second call whose mapping puts a bazel-out target and a //3rdparty/
\* target after //a:t: the store of the first call is gone, the two
\* iterations on the skipped targets have left the store of //a:t as it was.
C40_Witness ==
    /\ pw_runs = 2
    /\ pw_call.pc = "returned"
    /\ Len(pw_call.target_to_output) = 3
    /\ TargetsUpTo(3) = <<"//a:t", "bazel-out/bin/gen:z", "//3rdparty/x:y">>
    /\ pw_handed = <<"//a:t">>
    /\ pw_store._last_link_id = 2
    /\ DOMAIN pw_store.files = {"A.java", "B.java"}
    /\ pw_store = pw_before

=============================================================================
